---- MODULE Spec2Model ----
(***************************************************************************)
(* Csv::Parser (ashaduri/csv-parser): the tokenizing state machine of      *)
(* Parser::parse, the string unescaper cleanString, the cell value         *)
(* constructor CellReference::CellReference, and the wrappers              *)
(* parseTo2DVector, parseToVectorRowMajor and parseToVectorColumnMajor     *)
(* that assemble the cells into containers.                                *)
(*                                                                         *)
(* One step of the model is one iteration of the for loop of               *)
(* Parser::parse: the character at pos is read and the case of the         *)
(* current machine state is executed, including the ++pos of the loop      *)
(* header.  parse leaves the loop only through a return or a throw (every  *)
(* machine state returns or throws on the end-of-input character), which   *)
(* is recorded in outcome.  A step that stores a cell includes the call    *)
(* of the sink of the calling wrapper; the code of a wrapper after parse   *)
(* has returned is one further step.                                       *)
(***************************************************************************)
EXTENDS Integers, Sequences, FiniteSets, TLC

\* ---------------------------------------------------------------- bounds
MaxLen == 5

\* ------------------------------------------------------------ characters
Comma == ","
Quote == "\""
CR == "\r"
LF == "\n"
Space == " "
Tab == "\t"
Letter == "a"
Eof == "eof"

Alphabet == {Comma, Quote, CR, LF, Space, Tab, Letter}

\* The strings of exactly n, and of at most n, characters of A.
StringsOfLen(A, n) == [1..n -> A]

StringsUpTo(A, n) == UNION {StringsOfLen(A, k) : k \in 0..n}

\* ------------------------------------------------------------ type hints
HintEmpty == "Empty"
HintStringWithEscapedQuotes == "StringWithEscapedQuotes"
HintStringWithoutEscapedQuotes == "StringWithoutEscapedQuotes"
HintUnquotedData == "UnquotedData"

CellTypeHint ==
    {HintEmpty, HintStringWithEscapedQuotes, HintStringWithoutEscapedQuotes, HintUnquotedData}

MachineState ==
    {"AtCellStart", "InLeadingWhiteSpace", "InsideUnquotedValue", "InsideQuotedValue",
     "AfterQuotedValue"}

VARIABLES
    data,                        \* the text passed to parse
    useEmptyCellType,            \* BehaviorPolicy::useEmptyCellType()
    pos,                         \* loop variable of parse, 0-based
    machine_state,               \* ParserState::machine_state
    current_row,                 \* ParserState::current_row
    current_column,              \* ParserState::current_column
    current_value,               \* ParserState::current_value: [start, size] into data
    escaped_quotes_encountered,  \* ParserState::escaped_quotes_encountered
    cells,                       \* the calls made to storeCellFunc, in order
    views,                       \* the string_view passed by each of those calls: [start, size] into data
    outcome,                     \* "running", "returned" or "error" (ParseError thrown)
    error,                       \* row and column of the thrown ParseError
    field,                       \* the string a caller quoted to build data (QuotedFieldSpec)
    cell_text,                   \* CellReference constructor argument cell
    cell_hint,                   \* CellReference constructor argument hint
    cell_value,                  \* CellReference::value_, NotConstructed before the call
    first_run,                   \* what a first parse of data did, kept by the caller
    wrapper,                     \* the function that called parse
    rows,                        \* argument rows of parseToVectorColumnMajor
    columns,                     \* argument columns of parseToVectorRowMajor (optional)
    values,                      \* the caller's output container
    returned_info,               \* the MatrixInformation returned by a flat wrapper
    wrapper_pc,                  \* "in_parse" until the wrapper has returned, then "returned"
    parsed_values,               \* local container the sink of a wrapper fills
    info,                        \* local MatrixInformation of a flat wrapper
    unknown_columns,             \* local of parseToVectorRowMajor
    read_columns,                \* local of parseToVectorRowMajor
    fault,                       \* outcome of an element write outside the container
    rows_hint,                   \* argument rows_hint of parseToVectorRowMajor (optional)
    columns_hint,                \* argument columns_hint of parseToVectorColumnMajor (optional)
    capacity,                    \* capacity of the storage of parsed_values
    matrix_row,                  \* argument row of a call of matrixIndex
    matrix_column,               \* argument column of a call of matrixIndex
    matrix_index,                \* what MatrixInformation::matrixIndex(row, column) returned
    static_index,                \* what the static matrixIndex returned for the same object
    grid,                        \* the rows of cell texts a caller joined to build data (GridSpec)
    line_break,                  \* the line break the caller put between the rows
    owned_value,                 \* CellValue::value_, NotConstructed before the call
    Size,                        \* template argument Size of CellStringBuffer
    has_escaped_quotes,          \* CellStringBuffer constructor argument has_escaped_quotes
    buffer_,                     \* CellStringBuffer::buffer_, or what the constructor threw
    clean_string,                \* what cleanString(cell_text) returned (optional: not yet called)
    number_type,                 \* template argument Number of readNumber, CellT of create
    number_value,                \* what readNumber<Number>(cell_text) returned, NotCalled before
    element,                     \* what create<CellT>(cell_text, cell_hint) returned for an arithmetic CellT
    exception,                   \* the ParseError object constructed by a throw
    other_call                   \* the locals of a second call of parse while it is not scheduled

vars ==
    <<data, useEmptyCellType, pos, machine_state, current_row, current_column,
      current_value, escaped_quotes_encountered, cells, views, outcome, error,
      field, cell_text, cell_hint, cell_value, first_run, wrapper, rows, columns,
      values, returned_info, wrapper_pc, parsed_values, info, unknown_columns,
      read_columns, fault, rows_hint, columns_hint, capacity,
      matrix_row, matrix_column, matrix_index, static_index, grid, line_break,
      owned_value, Size, has_escaped_quotes, buffer_, clean_string,
      number_type, number_value, element, exception, other_call>>

\* The arguments and results of the calls of the utility functions.
utilVars == <<matrix_row, matrix_column, matrix_index, static_index, grid, line_break,
      owned_value, Size, has_escaped_quotes, buffer_, clean_string,
      number_type, number_value, element, exception, other_call>>

\* What one call of parse never writes.
callerVars ==
    <<data, useEmptyCellType, field, cell_text, cell_hint, cell_value, first_run,
      wrapper, rows, columns, values, returned_info, wrapper_pc, rows_hint, columns_hint,
      utilVars>>

\* What the sink of a wrapper writes.
assemblyVars == <<parsed_values, info, unknown_columns, read_columns, fault, capacity>>

\* What a call of store writes.
sinkVars == <<cells, views, parsed_values, info, unknown_columns, read_columns, fault, capacity>>

\* The local state of one call of parse and of the sink it calls.
parseVars ==
    <<pos, machine_state, current_row, current_column, current_value,
      escaped_quotes_encountered, cells, views, outcome, error,
      parsed_values, info, unknown_columns, read_columns, fault, capacity>>

\* --------------------------------------------------------------- helpers

\* A default-constructed std::string_view.
NullView == [start |-> 0, size |-> 0]

NoError == [row |-> -1, column |-> -1]

NotConstructed == [type |-> "NotConstructed"]

\* A std::optional without and with a value.
Nullopt == [has_value |-> FALSE, value |-> 0]

Some(n) == [has_value |-> TRUE, value |-> n]

\* The result of a function that has not been called.
NotCalled == [has_value |-> FALSE, value |-> 0, raised |-> "not_called"]

\* The characters a string_view [start, size] of d denotes.
ViewText(d, v) == SubSeq(d, v.start + 1, v.start + v.size)

peek(d, current_pos, advance_chars) ==
    IF current_pos + advance_chars < Len(d)
    THEN d[current_pos + advance_chars + 1]
    ELSE Eof

readChar(d, p) == peek(d, p, 0)

current_char == readChar(data, pos)

\* ----------------------------------------------------------- cleanString

\* Mutation of CleanNextPos: the second quote of a pair is not skipped.
CleanNextPosNoSkip(view, p) == p + 1

\* The position the loop of cleanString continues at after copying view[p]:
\* the second quote of an adjacent pair is skipped.
CleanNextPos(view, p) ==
    IF view[p + 1] = Quote /\ p + 1 < Len(view) /\ view[p + 2] = Quote
    THEN p + 2
    ELSE p + 1

RECURSIVE CleanFrom(_, _, _)
CleanFrom(view, p, s) ==
    IF p >= Len(view) THEN s
    ELSE CleanFrom(view, CleanNextPos(view, p), Append(s, view[p + 1]))

\* Mutation of cleanString: pairs of quotes are kept.
cleanStringKeepsPairs(view) == view

cleanString(view) == CleanFrom(view, 0, <<>>)

\* ------------------------------------------------------- CellStringBuffer

\* The value of a char of a value-initialized std::array.
NulChar == "\\0"

\* std::array<char, n> buffer = { }
EmptyArray(n) == [i \in 1..n |-> NulChar]

\* getCleanStringSize(input): the size of the string cleanString gives for input.
getCleanStringSize(input) == Len(cleanString(input))

\* The loop of CellStringBuffer::cleanString from input_pos on: b is the
\* array and output_pos the number of characters written.
RECURSIVE BufferCleanFrom(_, _, _, _)
BufferCleanFrom(input, input_pos, b, output_pos) ==
    IF input_pos >= Len(input) THEN [thrown |-> "none", buffer |-> b, size |-> output_pos]
    ELSE LET c == input[input_pos + 1]
             skip == c = Quote /\ input_pos + 1 < Len(input) /\ input[input_pos + 2] = Quote
         IN BufferCleanFrom(input, IF skip THEN input_pos + 2 ELSE input_pos + 1,
                            [b EXCEPT ![output_pos + 1] = c], output_pos + 1)

\* What CellStringBuffer<n>::cleanString or prepareBuffer throws.
OutOfRange == [thrown |-> "out_of_range", buffer |-> <<>>, size |-> 0]

\* CellStringBuffer<n>::cleanString(input)
BufferCleanString(n, input) ==
    IF n < getCleanStringSize(input) THEN OutOfRange
    ELSE BufferCleanFrom(input, 0, EmptyArray(n), 0)

\* Mutation of prepareBuffer: the raw size is checked first, for every input.
prepareBufferChecksRawSize(n, input, escaped) ==
    IF n < Len(input) THEN OutOfRange
    ELSE IF escaped THEN BufferCleanString(n, input)
    ELSE [thrown |-> "none",
          buffer |-> [i \in 1..n |-> IF i <= Len(input) THEN input[i] ELSE NulChar],
          size |-> Len(input)]

\* CellStringBuffer<n>::prepareBuffer(input, has_escaped_quotes)
prepareBuffer(n, input, escaped) ==
    IF escaped THEN BufferCleanString(n, input)
    ELSE IF n < Len(input) THEN OutOfRange
    ELSE [thrown |-> "none",
          buffer |-> [i \in 1..n |-> IF i <= Len(input) THEN input[i] ELSE NulChar],
          size |-> Len(input)]

\* CellStringBuffer::getStringView
getStringView(b) == SubSeq(b.buffer, 1, b.size)

\* ------------------------------------------------------------ readNumber

Digit == "5"
Minus == "-"
ExpLower == "e"
ExpUpper == "E"
FormFeed == "\f"
Plus == "+"
Point == "."
LetterI == "i"
LetterN == "n"
LetterF == "f"

\* std::isspace in the "C" locale, which std::stod applies to leading characters.
IsSpace(c) == c \in {Space, Tab, LF, CR, FormFeed}

\* std::tolower on the characters of the model.
ToLower(c) == IF c = ExpUpper THEN ExpLower ELSE c

LowerCase(s) == [i \in 1..Len(s) |-> ToLower(s[i])]

\* cell.find_last_not_of(" \t") + 1, or the full size when there is no such character.
TrimmedSize(cell) ==
    LET keep == {i \in 1..Len(cell) : cell[i] \notin {Space, Tab}}
    IN IF keep # {} THEN CHOOSE i \in keep : \A j \in keep : j <= i ELSE Len(cell)

IsDigit(c) == c = Digit

\* The number of whitespace characters of s from 0-based position p on.
RECURSIVE SpaceRun(_, _)
SpaceRun(s, p) ==
    IF p < Len(s) /\ IsSpace(s[p + 1]) THEN 1 + SpaceRun(s, p + 1) ELSE 0

\* The number of digits of s from 0-based position p on.
RECURSIVE DigitRun(_, _)
DigitRun(s, p) ==
    IF p < Len(s) /\ IsDigit(s[p + 1]) THEN 1 + DigitRun(s, p + 1) ELSE 0

\* 1 when the character after the first p characters of s is a sign, else 0.
SignLen(s, p) == IF p < Len(s) /\ s[p + 1] \in {Minus, Plus} THEN 1 ELSE 0

\* The end of the longest run of digits with at most one decimal point that
\* starts after the first p0 characters of s.
MantissaEnd(s, p0) ==
    LET int_end == p0 + DigitRun(s, p0)
    IN IF int_end < Len(s) /\ s[int_end + 1] = Point
       THEN int_end + 1 + DigitRun(s, int_end + 1)
       ELSE int_end

\* The number of digits between the positions p0 and mant_end of s.
MantissaDigits(s, p0, mant_end) ==
    Cardinality({i \in (p0 + 1)..mant_end : IsDigit(s[i])})

\* The number of digits of the exponent that starts after the first
\* mant_end characters of s, 0 when there is none.
ExponentDigits(s, mant_end) ==
    IF mant_end < Len(s) /\ s[mant_end + 1] = ExpLower
    THEN DigitRun(s, mant_end + 1 + SignLen(s, mant_end + 1))
    ELSE 0

\* The conversion of s after its whitespace and sign, which end at p0.
StodFrom(s, p0) ==
    IF p0 + 3 <= Len(s) /\ SubSeq(s, p0 + 1, p0 + 3) \in
           {<<LetterI, LetterN, LetterF>>, <<LetterN, Letter, LetterN>>}
    THEN [processed |-> p0 + 3, exp_digits |-> 0]
    ELSE IF MantissaDigits(s, p0, MantissaEnd(s, p0)) = 0
         THEN [processed |-> -1, exp_digits |-> 0]
    ELSE IF ExponentDigits(s, MantissaEnd(s, p0)) > 0
         THEN [processed |-> MantissaEnd(s, p0) + 1 + SignLen(s, MantissaEnd(s, p0) + 1)
                               + ExponentDigits(s, MantissaEnd(s, p0)),
               exp_digits |-> ExponentDigits(s, MantissaEnd(s, p0))]
    ELSE [processed |-> MantissaEnd(s, p0), exp_digits |-> 0]

\* std::strtod on the characters of the model, in the "C" locale: leading
\* whitespace is skipped, then an optional sign, then the longest prefix that
\* is "inf", "nan", or digits with at most one decimal point and at least
\* one digit, optionally followed by e, an optional sign and digits.
\* processed is the number of characters converted, -1 when no conversion can
\* be performed; exp_digits is the number of digits of the converted exponent.
StodParse(s) == StodFrom(s, SpaceRun(s, 0) + SignLen(s, SpaceRun(s, 0)))

\* The num_processed of std::stod(s, &num_processed), -1 when std::stod
\* throws std::invalid_argument.
StodProcessed(s) == StodParse(s).processed

\* The Number types of readNumber the model tells apart.
FloatingTypes == {"float", "double"}
IntegerTypes == {"int"}
NumberTypes == FloatingTypes \cup IntegerTypes

\* The most digits an exponent written with the digit of the model can have
\* for the number to be in the range of the type: 5e5 is a float and 5e55 is
\* not, 5e55 is a double and 5e555 is not, and likewise for negative exponents.
MaxExponentDigits(Number) == IF Number = "float" THEN 1 ELSE 2

\* What std::stof or std::stod throws for s: std::invalid_argument when
\* nothing is converted, std::out_of_range when strtod reports ERANGE.
StodThrown(s, Number) ==
    IF StodParse(s).processed = -1 THEN "invalid_argument"
    ELSE IF StodParse(s).exp_digits > MaxExponentDigits(Number) THEN "out_of_range"
    ELSE "none"

\* Mutation of StoiProcessed: every character counts as converted.
StoiProcessedWholeText(s) == Len(s)

\* The num_processed of std::stoi(s, &num_processed): leading whitespace, an
\* optional sign and decimal digits; -1 when std::stoi throws
\* std::invalid_argument.  The digits of the texts of the model are too few
\* to leave the range of int.
StoiProcessed(s) ==
    LET ws == SpaceRun(s, 0)
        sign == IF ws < Len(s) /\ s[ws + 1] \in {Minus, Plus} THEN 1 ELSE 0
        digits == DigitRun(s, ws + sign)
    IN IF digits = 0 THEN -1 ELSE ws + sign + digits

\* What std::stoi throws for s.
StoiThrown(s) == IF StoiProcessed(s) = -1 THEN "invalid_argument" ELSE "none"

\* Mutation of readNumber: without the catch, what the conversion throws leaves readNumber.
readNumberWithoutCatch(cell, Number) ==
    LET s == LowerCase(SubSeq(cell, 1, TrimmedSize(cell)))
        thrown == IF Number \in FloatingTypes THEN StodThrown(s, Number) ELSE StoiThrown(s)
    IN [has_value |-> FALSE, value |-> 0, raised |-> thrown]

\* readNumber<Number>(cell): the optional returned, its value standing for
\* the number the converted characters denote, and what readNumber raised.
readNumber(cell, Number) ==
    LET s == LowerCase(SubSeq(cell, 1, TrimmedSize(cell)))
        num_processed == IF Number \in FloatingTypes THEN StodProcessed(s) ELSE StoiProcessed(s)
        thrown == IF Number \in FloatingTypes THEN StodThrown(s, Number) ELSE StoiThrown(s)
    IN IF thrown = "none" /\ num_processed = Len(s)
       THEN [has_value |-> TRUE, value |-> SubSeq(s, SpaceRun(s, 0) + 1, Len(s)),
             raised |-> "none"]
       ELSE [has_value |-> FALSE, value |-> 0, raised |-> "none"]

\* Mutation of readNumberHasValue: a converted prefix is enough.
readNumberAcceptsPrefix(cell) ==
    StodProcessed(LowerCase(SubSeq(cell, 1, TrimmedSize(cell)))) # -1

\* The double readNumber<double>(cell) returns when it returns one: the
\* number denoted by the converted characters, which stands for it here.
readNumberValue(cell) ==
    LET s == LowerCase(SubSeq(cell, 1, TrimmedSize(cell)))
    IN SubSeq(s, SpaceRun(s, 0) + 1, Len(s))

\* readNumber<double>(cell): TRUE when a value is returned.
readNumberHasValue(cell) == readNumber(cell, "double").has_value

\* ------------------------------------------------- CellReference::CellReference

\* value_ after CellReference(cell, hint).
CellReference(cell, hint) ==
    CASE hint = HintEmpty -> [type |-> "Empty"]
      [] hint = HintStringWithEscapedQuotes ->
            [type |-> "String", view |-> cell, has_escaped_quotes |-> TRUE]
      [] hint = HintStringWithoutEscapedQuotes ->
            [type |-> "String", view |-> cell, has_escaped_quotes |-> FALSE]
      [] hint = HintUnquotedData ->
            IF readNumberHasValue(cell)
            THEN [type |-> "Double", value |-> readNumberValue(cell)]
            ELSE [type |-> "String", view |-> cell, has_escaped_quotes |-> FALSE]

\* std::holds_alternative<T>(value_)
HoldsAlternative(v, alternative) == v.type = alternative

\* CellReference::getType and CellValue::getType; "bad_variant_access" when thrown.
getType(v) ==
    IF HoldsAlternative(v, "Empty") THEN "Empty"
    ELSE IF HoldsAlternative(v, "Double") THEN "Double"
    ELSE IF HoldsAlternative(v, "String") THEN "String"
    ELSE "bad_variant_access"

\* CellReference::isEmpty and CellValue::isEmpty
isEmpty(v) == HoldsAlternative(v, "Empty")

\* Mutation of getDouble: a value is returned for every alternative.
getDoubleOfAnyAlternative(v) == Some(<<>>)

\* CellReference::getDouble and CellValue::getDouble
getDouble(v) == IF HoldsAlternative(v, "Double") THEN Some(v.value) ELSE Nullopt

\* CellReference::getOriginalStringView; the flag is what *has_escaped_quotes receives.
getOriginalStringView(v) ==
    IF HoldsAlternative(v, "String")
    THEN [has_value |-> TRUE, value |-> v.view, has_escaped_quotes |-> v.has_escaped_quotes]
    ELSE Nullopt

\* CellReference::getCleanString
getCleanString(v) ==
    IF HoldsAlternative(v, "String")
    THEN Some(IF v.has_escaped_quotes THEN cleanString(v.view) ELSE v.view)
    ELSE Nullopt

\* value_ after CellValue(cell, hint).
CellValue(cell, hint) ==
    CASE hint = HintEmpty -> [type |-> "Empty"]
      [] hint = HintStringWithEscapedQuotes -> [type |-> "String", string |-> cleanString(cell)]
      [] hint = HintStringWithoutEscapedQuotes -> [type |-> "String", string |-> cell]
      [] hint = HintUnquotedData ->
            IF readNumberHasValue(cell)
            THEN [type |-> "Double", value |-> readNumberValue(cell)]
            ELSE [type |-> "String", string |-> cell]

\* CellValue::getString
getString(v) == IF HoldsAlternative(v, "String") THEN Some(v.string) ELSE Nullopt

\* ------------------------------------------------------- MatrixInformation

RowMajor == "RowMajor"
ColumnMajor == "ColumnMajor"

\* A default-constructed MatrixInformation.
MatrixInformation == [rows |-> 0, columns |-> 0, order |-> RowMajor]

setRows(i, new_rows) == [i EXCEPT !.rows = new_rows]

setColumns(i, new_columns) == [i EXCEPT !.columns = new_columns]

setOrder(i, new_order) == [i EXCEPT !.order = new_order]

\* Mutation of matrixIndex: the order is ignored.
matrixIndexIgnoresOrder(row, column, rows_, columns_, order) == row * columns_ + column

\* Mutation of matrixIndex: the stride of each order is the other dimension.
matrixIndexOtherStride(row, column, rows_, columns_, order) ==
    IF order = RowMajor THEN row * rows_ + column ELSE column * columns_ + row

\* The static MatrixInformation::matrixIndex.
matrixIndex(row, column, rows_, columns_, order) ==
    IF order = RowMajor THEN row * columns_ + column ELSE column * rows_ + row

\* Mutation of MatrixIndexOf: the dimensions of the object are not read.
MatrixIndexOfDefaultObject(i, row, column) == matrixIndex(row, column, 0, 0, RowMajor)

\* The member MatrixInformation::matrixIndex of i.
MatrixIndexOf(i, row, column) == matrixIndex(row, column, i.rows, i.columns, i.order)

\* No MatrixInformation has been returned.
NoInfo == [rows |-> 0, columns |-> 0, order |-> "none"]

\* What the caller keeps of a first parse; NotRun before it.
NotRun == [cells |-> <<>>, outcome |-> "none", error |-> NoError]

\* ------------------------------------------------------ the sinks of the wrappers

\* A default-constructed CellReference.
DefaultCell == [type |-> "Empty"]

\* Csv::readNumberLocale<Number>(cell), the conversion honouring the host
\* locale that LocaleAwareBehaviorPolicy::readNumber forwards to.
readNumberLocale(cell, Number) == readNumber(cell, Number)

\* std::numeric_limits<CellT>::quiet_NaN(): 0 for an integral type.
quiet_NaN(CellT) == IF CellT \in FloatingTypes THEN "NaN" ELSE 0

\* BehaviorPolicy::create<CellT>(cell, hint) for an arithmetic CellT: the
\* element returned and what the call raised. The hint is not used.
createArithmetic(cell, hint, CellT) ==
    LET number == readNumberLocale(cell, CellT)
    IN IF number.raised # "none"
       THEN [has_value |-> FALSE, value |-> 0, raised |-> number.raised]
       ELSE [has_value |-> TRUE,
             value |-> IF number.has_value THEN number.value ELSE quiet_NaN(CellT),
             raised |-> "none"]

\* BehaviorPolicy::create<CellReference>(cell, hint)
create(cell, hint) == CellReference(cell, hint)

\* v.resize(n) of a std::vector whose new elements are value-initialized to fill.
Resize(v, n, fill) ==
    IF n <= Len(v) THEN SubSeq(v, 1, n) ELSE v \o [i \in 1..(n - Len(v)) |-> fill]

\* Mutation of Vector2DSink: the row selects the outer container.
Vector2DSinkRowsOuter(row, column, cell_data, hint) ==
    LET outer == IF Len(parsed_values) < row + 1
                 THEN Resize(parsed_values, row + 1, <<>>)
                 ELSE parsed_values
        inner == IF Len(outer[row + 1]) < column + 1
                 THEN Resize(outer[row + 1], column + 1, DefaultCell)
                 ELSE outer[row + 1]
    IN /\ parsed_values' =
             [outer EXCEPT ![row + 1] = [inner EXCEPT ![column + 1] = create(cell_data, hint)]]
       /\ UNCHANGED <<info, unknown_columns, read_columns, fault, capacity>>

\* The lambda of parseTo2DVector.
Vector2DSink(row, column, cell_data, hint) ==
    LET outer == IF Len(parsed_values) < column + 1
                 THEN Resize(parsed_values, column + 1, <<>>)
                 ELSE parsed_values
        inner == IF Len(outer[column + 1]) < row + 1
                 THEN Resize(outer[column + 1], row + 1, DefaultCell)
                 ELSE outer[column + 1]
    IN /\ parsed_values' =
             [outer EXCEPT ![column + 1] = [inner EXCEPT ![row + 1] = create(cell_data, hint)]]
       /\ UNCHANGED <<info, unknown_columns, read_columns, fault, capacity>>

\* The capacity after v.reserve(n), and after a v.resize(n) that has to grow:
\* at least n, and never less than before.
Reserve(cap, n) == IF n > cap THEN n ELSE cap

\* v[index] = value on the flat container v.  An index at or after the size
\* of v is an access outside the container, with undefined behaviour: the
\* write either lands outside the elements of v and leaves them as they are,
\* or the process is stopped.
WriteElement(v, index, value) ==
    IF index < Len(v)
    THEN /\ parsed_values' = [v EXCEPT ![index + 1] = value]
         /\ fault' = fault
    ELSE /\ parsed_values' = v
         /\ fault' \in {"ignored", "crashed"}

\* The lambda of parseToVectorRowMajor.
RowMajorSink(row, column, cell_data, hint) ==
    LET first_row == unknown_columns /\ row = 0
        second_row == unknown_columns /\ row # 0 /\ row = 1
        read1 == IF first_row THEN column + 1 ELSE read_columns
        v1 == IF first_row THEN Resize(parsed_values, read1, DefaultCell) ELSE parsed_values
        unknown1 == IF second_row THEN FALSE ELSE unknown_columns
        info1 == IF second_row THEN setColumns(info, read_columns) ELSE info
        v2 == IF ~unknown1 /\ Len(v1) < (row + 1) * info1.columns
              THEN Resize(v1, (row + 1) * info1.columns, DefaultCell)
              ELSE v1
        cap1 == IF first_row THEN Reserve(capacity, read1) ELSE capacity
        cap2 == IF second_row /\ rows_hint.has_value
                THEN Reserve(cap1, rows_hint.value * info1.columns)
                ELSE cap1
    IN /\ read_columns' = read1
       /\ capacity' = Reserve(cap2, Len(v2))
       /\ unknown_columns' = unknown1
       /\ info' = info1
       /\ WriteElement(v2, MatrixIndexOf(info1, row, column), create(cell_data, hint))

\* Mutation of ColumnMajorSink: the element is indexed by (column, row).
ColumnMajorSinkTransposed(row, column, cell_data, hint) ==
    LET v1 == IF Len(parsed_values) < (column + 1) * rows
              THEN Resize(parsed_values, (column + 1) * rows, DefaultCell)
              ELSE parsed_values
    IN /\ WriteElement(v1, MatrixIndexOf(info, column, row), create(cell_data, hint))
       /\ capacity' = Reserve(capacity, Len(v1))
       /\ UNCHANGED <<info, unknown_columns, read_columns>>

\* The lambda of parseToVectorColumnMajor.
ColumnMajorSink(row, column, cell_data, hint) ==
    LET v1 == IF Len(parsed_values) < (column + 1) * rows
              THEN Resize(parsed_values, (column + 1) * rows, DefaultCell)
              ELSE parsed_values
    IN /\ WriteElement(v1, MatrixIndexOf(info, row, column), create(cell_data, hint))
       /\ capacity' = Reserve(capacity, Len(v1))
       /\ UNCHANGED <<info, unknown_columns, read_columns>>

\* The callback passed to parse by the function that called it.
storeCellFunc(row, column, cell_data, hint) ==
    CASE wrapper = "parse" -> UNCHANGED assemblyVars
      [] wrapper = "parseTo2DVector" -> Vector2DSink(row, column, cell_data, hint)
      [] wrapper = "parseToVectorRowMajor" -> RowMajorSink(row, column, cell_data, hint)
      [] wrapper = "parseToVectorColumnMajor" -> ColumnMajorSink(row, column, cell_data, hint)

\* Mutation of StoredHint: without the empty type an empty cell is unquoted data.
StoredHintUnquotedData(type_hint, use_empty) ==
    IF type_hint = HintEmpty /\ ~use_empty
    THEN HintUnquotedData
    ELSE type_hint

\* The hint store() passes to the callback.
StoredHint(type_hint, use_empty) ==
    IF type_hint = HintEmpty /\ ~use_empty
    THEN HintStringWithoutEscapedQuotes
    ELSE type_hint

store(type_hint) ==
    /\ views' = Append(views, current_value)
    /\ cells' = Append(cells, [row |-> current_row,
                               column |-> current_column,
                               text |-> ViewText(data, current_value),
                               hint |-> StoredHint(type_hint, useEmptyCellType)])
    /\ storeCellFunc(current_row, current_column, ViewText(data, current_value),
                     StoredHint(type_hint, useEmptyCellType))

\* Mutation of switchToNextColumn: the column counter is not advanced.
switchToNextColumnKeepsColumn ==
    /\ current_value' = NullView
    /\ escaped_quotes_encountered' = FALSE
    /\ UNCHANGED <<current_row, current_column>>

switchToNextColumn ==
    /\ current_value' = NullView
    /\ escaped_quotes_encountered' = FALSE
    /\ current_column' = current_column + 1
    /\ UNCHANGED current_row

\* Mutation of NextLinePos: the LF of a CR LF pair is not skipped.
NextLinePosNoSkip(d, current_pos) == current_pos

\* The position switchToNextLine returns: a LF right after a CR is skipped.
NextLinePos(d, current_pos) ==
    IF d[current_pos + 1] = CR /\ peek(d, current_pos, 1) = LF
    THEN current_pos + 1
    ELSE current_pos

\* Mutation of switchToNextLine: the escaped-quote flag is not reset.
switchToNextLineKeepsFlag ==
    /\ current_value' = NullView
    /\ UNCHANGED escaped_quotes_encountered
    /\ current_column' = 0
    /\ current_row' = current_row + 1
    /\ pos' = NextLinePos(data, pos) + 1

\* switchToNextLine followed by the ++pos of the loop.
switchToNextLine ==
    /\ current_value' = NullView
    /\ escaped_quotes_encountered' = FALSE
    /\ current_column' = 0
    /\ current_row' = current_row + 1
    /\ pos' = NextLinePos(data, pos) + 1

\* Mutation of IncreasedView: the size does not grow.
IncreasedViewKeepsSize(v, by_chars) == v

IncreasedView(v, by_chars) == [start |-> v.start, size |-> v.size + by_chars]

increaseCurrentValueSize(by_chars) ==
    current_value' = IncreasedView(current_value, by_chars)

\* data.substr(current_pos, size): the size is clamped to the end of data.
Substr(d, current_pos, size) ==
    [start |-> current_pos,
     size |-> IF current_pos + size > Len(d) THEN Len(d) - current_pos ELSE size]

\* Mutation of restartCurrentValue: the value restarts at the beginning of data.
restartCurrentValueFromStart(current_pos, size) ==
    /\ current_value' = Substr(data, 0, size)
    /\ escaped_quotes_encountered' = FALSE

restartCurrentValue(current_pos, size) ==
    /\ current_value' = Substr(data, current_pos, size)
    /\ escaped_quotes_encountered' = FALSE

\* Mutation of UnquotedHint: the escaped-quote flag is ignored.
UnquotedHintIgnoresFlag(escaped) == HintUnquotedData

\* The hint of an unquoted or quoted value, chosen by the escaped-quote flag.
UnquotedHint(escaped) ==
    IF escaped THEN HintStringWithEscapedQuotes ELSE HintUnquotedData

QuotedHint(escaped) ==
    IF escaped THEN HintStringWithEscapedQuotes ELSE HintStringWithoutEscapedQuotes

\* return from parse
Return == /\ outcome' = "returned"
          /\ UNCHANGED <<pos, machine_state, current_row, current_column, current_value,
                         escaped_quotes_encountered, error>>

\* std::to_string(n) of an unsigned n: its decimal digits.
DecimalDigits == <<"0", "1", "2", "3", "4", "5", "6", "7", "8", "9">>

RECURSIVE to_string(_)
to_string(n) ==
    IF n < 10 THEN <<DecimalDigits[n + 1]>>
    ELSE to_string(n \div 10) \o <<DecimalDigits[(n % 10) + 1]>>

\* The string literals of createWhatString.
WhatRow ==
    <<"C", "S", "V", " ", "p", "a", "r", "s", "e", " ", "e", "r", "r", "o", "r", " ",
      "a", "t", " ", "r", "o", "w", " ">>

WhatColumn == <<",", " ", "c", "o", "l", "u", "m", "n", " ">>

\* Mutation of createWhatString: the 0-based numbers are printed.
createWhatStringZeroBased(row, column) ==
    WhatRow \o to_string(row) \o WhatColumn \o to_string(column)

\* ParseError::createWhatString(row, column)
createWhatString(row, column) ==
    WhatRow \o to_string(row + 1) \o WhatColumn \o to_string(column + 1)

\* ParseError::ParseError(row, column)
ParseError(r, c) == [what |-> createWhatString(r, c), row_ |-> r, column_ |-> c]

\* ParseError::row(), ParseError::column() and std::runtime_error::what()
ParseError_row(e) == e.row_

ParseError_column(e) == e.column_

ParseError_what(e) == e.what

\* Mutation of ThrowParseError: row and column are passed in the wrong order.
ThrowParseErrorSwapped ==
    /\ outcome' = "error"
    /\ error' = [row |-> current_column, column |-> current_row]
    /\ UNCHANGED <<pos, machine_state, current_row, current_column, current_value,
                   escaped_quotes_encountered, sinkVars>>

\* throw ParseError(state.current_row, state.current_column)
ThrowParseError ==
    /\ outcome' = "error"
    /\ error' = [row |-> current_row, column |-> current_column]
    /\ UNCHANGED <<pos, machine_state, current_row, current_column, current_value,
                   escaped_quotes_encountered, sinkVars>>

\* ------------------------------------------------------------------ Init

\* matrixIndex is not called.
NoIndexCall ==
    /\ matrix_row = 0
    /\ matrix_column = 0
    /\ matrix_index = Nullopt
    /\ static_index = Nullopt

\* The caller did not build data from a grid.
NoGrid ==
    /\ grid = <<>>
    /\ line_break = <<LF>>

\* No CellValue is constructed.
NoCellValue == owned_value = NotConstructed

\* No CellStringBuffer is constructed.
NoBuffer ==
    /\ Size = 0
    /\ has_escaped_quotes = FALSE
    /\ buffer_ = NotConstructed

\* cleanString is not called.
NoCleanCall == clean_string = Nullopt

\* readNumber is not called.
NoNumberCall ==
    /\ number_type = "double"
    /\ number_value = NotCalled
    /\ element = NotCalled

\* No ParseError object is constructed.
NoException == exception = NotConstructed

\* No second call of parse has been started.
NotStarted == [outcome |-> "not_started"]

NoOtherCall == other_call = NotStarted

\* No utility function is called.
NoUtilityCall ==
    /\ NoException
    /\ NoOtherCall
    /\ NoNumberCall
    /\ NoCleanCall
    /\ NoBuffer
    /\ NoIndexCall
    /\ NoGrid
    /\ NoCellValue

\* parse is called directly, with a sink that records its calls.
NoWrapper ==
    /\ wrapper = "parse"
    /\ rows = 0
    /\ columns = Nullopt
    /\ values = <<>>
    /\ returned_info = NoInfo
    /\ wrapper_pc = "in_parse"
    /\ first_run = NotRun
    /\ parsed_values = <<>>
    /\ info = MatrixInformation
    /\ unknown_columns = FALSE
    /\ read_columns = 0
    /\ fault = "none"
    /\ rows_hint = Nullopt
    /\ columns_hint = Nullopt
    /\ capacity = 0

ParserStateInit ==
    /\ pos = 0
    /\ machine_state = "AtCellStart"
    /\ current_row = 0
    /\ current_column = 0
    /\ current_value = NullView
    /\ escaped_quotes_encountered = FALSE
    /\ cells = <<>>
    /\ views = <<>>
    /\ outcome = "running"
    /\ error = NoError

NoCell ==
    /\ cell_text = <<>>
    /\ cell_hint = HintEmpty
    /\ cell_value = NotConstructed

\* parse of any text, under a policy with either answer to useEmptyCellType().
Init ==
    /\ data \in StringsUpTo(Alphabet, MaxLen)
    /\ useEmptyCellType \in BOOLEAN
    /\ field = <<>>
    /\ NoCell
    /\ NoWrapper
    /\ ParserStateInit
    /\ NoUtilityCall

\* --------------------------------------------------------------- actions

Running == outcome = "running" /\ pos <= Len(data) /\ fault # "crashed"

\* Mutation of CellStartComma: the empty cell is not stored.
CellStartCommaSkipsStore ==
    /\ switchToNextColumn
    /\ pos' = pos + 1
    /\ UNCHANGED <<machine_state, sinkVars, outcome, error>>

\* case ',' of AtCellStart
CellStartComma ==
    /\ store(HintEmpty)
    /\ switchToNextColumn
    /\ pos' = pos + 1
    /\ UNCHANGED <<machine_state, outcome, error>>

\* Mutation of CellStartEof: a final empty cell is stored in every column.
CellStartEofAlwaysStores ==
    /\ store(HintEmpty)
    /\ Return

\* case eof of AtCellStart
CellStartEof ==
    /\ IF current_column # 0 THEN store(HintEmpty) ELSE UNCHANGED sinkVars
    /\ Return

AtCellStart ==
    /\ Running
    /\ machine_state = "AtCellStart"
    /\ UNCHANGED callerVars
    /\ CASE current_char \in {Space, Tab} ->
              /\ machine_state' = "InLeadingWhiteSpace"
              /\ restartCurrentValue(pos, 1)
              /\ pos' = pos + 1
              /\ UNCHANGED <<current_row, current_column, sinkVars, outcome, error>>
         [] current_char = Quote ->
              /\ machine_state' = "InsideQuotedValue"
              /\ restartCurrentValue(pos + 1, 0)
              /\ pos' = pos + 1
              /\ UNCHANGED <<current_row, current_column, sinkVars, outcome, error>>
         [] current_char = Comma ->
              CellStartComma
         [] current_char \in {CR, LF} ->
              /\ store(HintEmpty)
              /\ machine_state' = "AtCellStart"
              /\ switchToNextLine
              /\ UNCHANGED <<outcome, error>>
         [] current_char = Eof ->
              CellStartEof
         [] OTHER ->
              /\ machine_state' = "InsideUnquotedValue"
              /\ restartCurrentValue(pos, 1)
              /\ pos' = pos + 1
              /\ UNCHANGED <<current_row, current_column, sinkVars, outcome, error>>

\* Mutation of LeadingWhiteSpaceQuote: the leading whitespace is kept.
LeadingWhiteSpaceQuoteKeepsSpace ==
    /\ machine_state' = "InsideQuotedValue"
    /\ increaseCurrentValueSize(1)
    /\ escaped_quotes_encountered' = FALSE
    /\ pos' = pos + 1
    /\ UNCHANGED <<current_row, current_column, sinkVars, outcome, error>>

\* case '\"' of InLeadingWhiteSpace: the leading whitespace is discarded.
LeadingWhiteSpaceQuote ==
    /\ machine_state' = "InsideQuotedValue"
    /\ restartCurrentValue(pos + 1, 0)
    /\ pos' = pos + 1
    /\ UNCHANGED <<current_row, current_column, sinkVars, outcome, error>>

\* Mutation of LeadingWhiteSpaceToUnquoted: the value restarts at the character.
LeadingWhiteSpaceToUnquotedDropsSpace ==
    /\ machine_state' = "InsideUnquotedValue"
    /\ current_value' = Substr(data, pos, 1)
    /\ pos' = pos + 1
    /\ UNCHANGED <<current_row, current_column, escaped_quotes_encountered,
                   sinkVars, outcome, error>>

\* default case of InLeadingWhiteSpace: the whitespace stays in the value.
LeadingWhiteSpaceToUnquoted ==
    /\ machine_state' = "InsideUnquotedValue"
    /\ increaseCurrentValueSize(1)
    /\ pos' = pos + 1
    /\ UNCHANGED <<current_row, current_column, escaped_quotes_encountered,
                   sinkVars, outcome, error>>

InLeadingWhiteSpace ==
    /\ Running
    /\ machine_state = "InLeadingWhiteSpace"
    /\ UNCHANGED callerVars
    /\ CASE current_char \in {Space, Tab} ->
              /\ increaseCurrentValueSize(1)
              /\ pos' = pos + 1
              /\ UNCHANGED <<machine_state, current_row, current_column,
                             escaped_quotes_encountered, sinkVars, outcome, error>>
         [] current_char = Quote ->
              LeadingWhiteSpaceQuote
         [] current_char = Comma ->
              /\ store(HintStringWithoutEscapedQuotes)
              /\ machine_state' = "AtCellStart"
              /\ switchToNextColumn
              /\ pos' = pos + 1
              /\ UNCHANGED <<outcome, error>>
         [] current_char \in {CR, LF} ->
              /\ store(HintStringWithoutEscapedQuotes)
              /\ machine_state' = "AtCellStart"
              /\ switchToNextLine
              /\ UNCHANGED <<outcome, error>>
         [] current_char = Eof ->
              /\ store(HintStringWithoutEscapedQuotes)
              /\ Return
         [] OTHER ->
              LeadingWhiteSpaceToUnquoted

\* Mutation of UnquotedEof: the end of input inside an unquoted value is an error.
UnquotedEofThrows == ThrowParseError

\* case eof of InsideUnquotedValue
UnquotedEof ==
    /\ store(UnquotedHint(escaped_quotes_encountered))
    /\ Return

\* Mutation of UnquotedEscapedQuote: the quote pair turns the value into a quoted one.
UnquotedEscapedQuoteOpensQuoted ==
    /\ pos' = pos + 2
    /\ increaseCurrentValueSize(2)
    /\ escaped_quotes_encountered' = TRUE
    /\ machine_state' = "InsideQuotedValue"
    /\ UNCHANGED <<current_row, current_column, sinkVars, outcome, error>>

\* case '"' of InsideUnquotedValue when the next character is a quote too
UnquotedEscapedQuote ==
    /\ pos' = pos + 2
    /\ increaseCurrentValueSize(2)
    /\ escaped_quotes_encountered' = TRUE
    /\ UNCHANGED <<machine_state, current_row, current_column, sinkVars,
                   outcome, error>>

InsideUnquotedValue ==
    /\ Running
    /\ machine_state = "InsideUnquotedValue"
    /\ UNCHANGED callerVars
    /\ CASE current_char = Quote ->
              IF peek(data, pos, 1) # Quote
              THEN ThrowParseError
              ELSE UnquotedEscapedQuote
         [] current_char = Comma ->
              /\ store(UnquotedHint(escaped_quotes_encountered))
              /\ machine_state' = "AtCellStart"
              /\ switchToNextColumn
              /\ pos' = pos + 1
              /\ UNCHANGED <<outcome, error>>
         [] current_char \in {CR, LF} ->
              /\ store(UnquotedHint(escaped_quotes_encountered))
              /\ machine_state' = "AtCellStart"
              /\ switchToNextLine
              /\ UNCHANGED <<outcome, error>>
         [] current_char = Eof ->
              UnquotedEof
         [] OTHER ->
              /\ increaseCurrentValueSize(1)
              /\ pos' = pos + 1
              /\ UNCHANGED <<machine_state, current_row, current_column,
                             escaped_quotes_encountered, sinkVars, outcome, error>>

\* Mutation of QuotedEof: the unterminated value is stored before the throw.
QuotedEofStoresFirst ==
    /\ store(QuotedHint(escaped_quotes_encountered))
    /\ outcome' = "error"
    /\ error' = [row |-> current_row, column |-> current_column]
    /\ UNCHANGED <<pos, machine_state, current_row, current_column, current_value,
                   escaped_quotes_encountered>>

\* case eof of InsideQuotedValue
QuotedEof == ThrowParseError

\* Mutation of QuotedContinue: a line break inside the value advances the row.
QuotedContinueCountsLines ==
    /\ increaseCurrentValueSize(1)
    /\ pos' = pos + 1
    /\ current_row' = IF current_char \in {CR, LF} THEN current_row + 1 ELSE current_row
    /\ UNCHANGED <<machine_state, current_column,
                   escaped_quotes_encountered, sinkVars, outcome, error>>

\* default case of InsideQuotedValue: any character but a quote is data.
QuotedContinue ==
    /\ increaseCurrentValueSize(1)
    /\ pos' = pos + 1
    /\ UNCHANGED <<machine_state, current_row, current_column,
                   escaped_quotes_encountered, sinkVars, outcome, error>>

InsideQuotedValue ==
    /\ Running
    /\ machine_state = "InsideQuotedValue"
    /\ UNCHANGED callerVars
    /\ CASE current_char = Quote ->
              IF peek(data, pos, 1) = Quote
              THEN /\ pos' = pos + 2
                   /\ increaseCurrentValueSize(2)
                   /\ escaped_quotes_encountered' = TRUE
                   /\ UNCHANGED <<machine_state, current_row, current_column, sinkVars,
                                  outcome, error>>
              ELSE /\ store(QuotedHint(escaped_quotes_encountered))
                   /\ machine_state' = "AfterQuotedValue"
                   /\ pos' = pos + 1
                   /\ UNCHANGED <<current_row, current_column, current_value,
                                  escaped_quotes_encountered, outcome, error>>
         [] current_char = Eof ->
              QuotedEof
         [] OTHER ->
              QuotedContinue

\* Mutation of AfterQuotedUnexpected: the character is skipped like whitespace.
AfterQuotedUnexpectedIgnored ==
    /\ pos' = pos + 1
    /\ UNCHANGED <<machine_state, current_row, current_column, current_value,
                   escaped_quotes_encountered, sinkVars, outcome, error>>

\* default case of AfterQuotedValue
AfterQuotedUnexpected == ThrowParseError

\* Mutation of AfterQuotedSpace: the loop does not advance.
AfterQuotedSpaceStays ==
    UNCHANGED <<pos, machine_state, current_row, current_column, current_value,
                escaped_quotes_encountered, sinkVars, outcome, error>>

\* cases ' ' and '\t' of AfterQuotedValue, followed by the ++pos of the loop
AfterQuotedSpace ==
    /\ pos' = pos + 1
    /\ UNCHANGED <<machine_state, current_row, current_column, current_value,
                   escaped_quotes_encountered, sinkVars, outcome, error>>

AfterQuotedValue ==
    /\ Running
    /\ machine_state = "AfterQuotedValue"
    /\ UNCHANGED callerVars
    /\ CASE current_char \in {Space, Tab} ->
              AfterQuotedSpace
         [] current_char = Comma ->
              /\ machine_state' = "AtCellStart"
              /\ switchToNextColumn
              /\ pos' = pos + 1
              /\ UNCHANGED <<sinkVars, outcome, error>>
         [] current_char \in {CR, LF} ->
              /\ machine_state' = "AtCellStart"
              /\ switchToNextLine
              /\ UNCHANGED <<sinkVars, outcome, error>>
         [] current_char = Eof ->
              /\ Return
              /\ UNCHANGED sinkVars
         [] OTHER ->
              AfterQuotedUnexpected

Next ==
    \/ AtCellStart
    \/ InLeadingWhiteSpace
    \/ InsideUnquotedValue
    \/ InsideQuotedValue
    \/ AfterQuotedValue

Spec == Init /\ [][Next]_vars

\* parse as the calling thread runs it: the loop keeps stepping.
TerminationSpec == Init /\ [][Next]_vars /\ WF_vars(Next)

\* ----------------------------------- a single quoted field (QuotedFieldSpec)

MaxFieldLen == 3

RECURSIVE DoubleQuotes(_)
DoubleQuotes(t) ==
    IF t = <<>> THEN <<>>
    ELSE (IF Head(t) = Quote THEN <<Quote, Quote>> ELSE <<Head(t)>>) \o DoubleQuotes(Tail(t))

QuoteField(t) == <<Quote>> \o DoubleQuotes(t) \o <<Quote>>

QuotedFieldInit ==
    /\ field \in StringsUpTo(Alphabet, MaxFieldLen)
    /\ data = QuoteField(field)
    /\ useEmptyCellType \in BOOLEAN
    /\ NoCell
    /\ NoWrapper
    /\ ParserStateInit
    /\ NoUtilityCall

QuotedFieldNext ==
    \/ AtCellStart
    \/ InsideQuotedValue
    \/ AfterQuotedValue

QuotedFieldSpec == QuotedFieldInit /\ [][QuotedFieldNext]_vars

\* ------------------------------------- constructing one cell value (CellSpec)

MaxCellLen == 4

CellAlphabet == {Space, Tab, FormFeed, Digit, Letter, Minus, ExpLower, ExpUpper}

CellInit ==
    /\ cell_text \in StringsUpTo(CellAlphabet, MaxCellLen)
    /\ cell_hint \in CellTypeHint
    /\ cell_value = NotConstructed
    /\ data = <<>>
    /\ useEmptyCellType = TRUE
    /\ field = <<>>
    /\ NoWrapper
    /\ ParserStateInit
    /\ NoUtilityCall

ConstructCell ==
    /\ cell_value = NotConstructed
    /\ cell_value' = CellReference(cell_text, cell_hint)
    /\ UNCHANGED utilVars
    /\ UNCHANGED <<data, useEmptyCellType, field, cell_text, cell_hint, first_run,
                   wrapper, rows, columns, values, returned_info, wrapper_pc,
                   rows_hint, columns_hint>>
    /\ UNCHANGED parseVars

CellNext == ConstructCell

CellSpec == CellInit /\ [][CellNext]_vars

\* ------------------- the same text parsed with the empty type on, then off (SwitchSpec)

SwitchInit ==
    /\ data \in StringsUpTo(Alphabet, MaxLen)
    /\ useEmptyCellType = TRUE
    /\ field = <<>>
    /\ NoCell
    /\ NoWrapper
    /\ ParserStateInit
    /\ NoUtilityCall

\* The caller keeps what the first parse did, switches the empty type off
\* with useEmptyCellType(false) and calls parse on the same text again.
SwitchOff ==
    /\ outcome # "running"
    /\ useEmptyCellType
    /\ first_run = NotRun
    /\ first_run' = [cells |-> cells, outcome |-> outcome, error |-> error]
    /\ useEmptyCellType' = FALSE
    /\ pos' = 0
    /\ machine_state' = "AtCellStart"
    /\ current_row' = 0
    /\ current_column' = 0
    /\ current_value' = NullView
    /\ escaped_quotes_encountered' = FALSE
    /\ cells' = <<>>
    /\ views' = <<>>
    /\ outcome' = "running"
    /\ error' = NoError
    /\ UNCHANGED utilVars
    /\ UNCHANGED <<data, field, cell_text, cell_hint, cell_value, wrapper, rows, columns,
                   values, returned_info, wrapper_pc, rows_hint, columns_hint>>
    /\ UNCHANGED assemblyVars

SwitchNext ==
    \/ AtCellStart
    \/ InLeadingWhiteSpace
    \/ InsideUnquotedValue
    \/ InsideQuotedValue
    \/ AfterQuotedValue
    \/ SwitchOff

SwitchSpec == SwitchInit /\ [][SwitchNext]_vars

\* ----------------------------------------- parseTo2DVector (Vector2DSpec)

MaxMatrixLen == 5

MatrixAlphabet == {Comma, LF, Quote, Space, Letter}

\* What the caller's flat container holds before the call.
PreviousValues == <<DefaultCell>>

\* parseTo2DVector(data, values) up to its call of parse.
Vector2DInit ==
    /\ data \in StringsUpTo(MatrixAlphabet, MaxMatrixLen)
    /\ useEmptyCellType = TRUE
    /\ field = <<>>
    /\ NoCell
    /\ wrapper = "parseTo2DVector"
    /\ rows = 0
    /\ columns = Nullopt
    /\ values = <<PreviousValues>>
    /\ returned_info = NoInfo
    /\ wrapper_pc = "in_parse"
    /\ first_run = NotRun
    /\ parsed_values = <<>>
    /\ info = MatrixInformation
    /\ unknown_columns = FALSE
    /\ read_columns = 0
    /\ fault = "none"
    /\ rows_hint = Nullopt
    /\ columns_hint = Nullopt
    /\ capacity = 0
    /\ ParserStateInit
    /\ NoUtilityCall

\* Mutation of ParseCompleted: the statements after parse run when it threw, too.
ParseCompletedOrThrew == outcome # "running"

\* Control reaches the statements of a wrapper that follow its call of parse:
\* parse has returned and has not thrown.
ParseCompleted == outcome = "returned"

\* parseTo2DVector after parse has returned: std::swap(values, parsed_values).
parseTo2DVectorReturn ==
    /\ wrapper = "parseTo2DVector"
    /\ wrapper_pc = "in_parse"
    /\ ParseCompleted
    /\ values' = parsed_values
    /\ parsed_values' = values
    /\ wrapper_pc' = "returned"
    /\ UNCHANGED utilVars
    /\ UNCHANGED <<data, useEmptyCellType, field, cell_text, cell_hint, cell_value, first_run,
                   wrapper, rows, columns, returned_info, rows_hint, columns_hint>>
    /\ UNCHANGED <<pos, machine_state, current_row, current_column, current_value,
                   escaped_quotes_encountered, cells, views, outcome, error>>
    /\ UNCHANGED <<info, unknown_columns, read_columns, fault, capacity>>

Vector2DNext ==
    \/ AtCellStart
    \/ InLeadingWhiteSpace
    \/ InsideUnquotedValue
    \/ InsideQuotedValue
    \/ AfterQuotedValue
    \/ parseTo2DVectorReturn

Vector2DSpec == Vector2DInit /\ [][Vector2DNext]_vars

\* ------------- parseToVectorRowMajor and parseToVectorColumnMajor (FlatSpec)

MaxDim == 3

\* parseToVectorRowMajor(data, values, rows_hint, columns) up to its call of
\* parse, but for the reserve of rows_hint * columns, which the Init of each
\* specification adds.
RowMajorInit ==
    /\ wrapper = "parseToVectorRowMajor"
    /\ columns \in {Nullopt} \cup {Some(n) : n \in 0..MaxDim}
    /\ rows = 0
    /\ unknown_columns = ~columns.has_value
    /\ info = IF columns.has_value
              THEN setColumns(setOrder(MatrixInformation, RowMajor), columns.value)
              ELSE setOrder(MatrixInformation, RowMajor)
    /\ read_columns = 0

\* parseToVectorColumnMajor(data, values, rows, columns_hint) up to its call
\* of parse, but for the reserve of columns_hint * rows, which the Init of
\* each specification adds.
ColumnMajorInit ==
    /\ wrapper = "parseToVectorColumnMajor"
    /\ rows \in 0..MaxDim
    /\ columns = Nullopt
    /\ unknown_columns = FALSE
    /\ info = setRows(setOrder(MatrixInformation, ColumnMajor), rows)
    /\ read_columns = 0

FlatInit ==
    /\ data \in StringsUpTo(MatrixAlphabet, MaxMatrixLen)
    /\ useEmptyCellType = TRUE
    /\ field = <<>>
    /\ NoCell
    /\ RowMajorInit \/ ColumnMajorInit
    /\ rows_hint = Nullopt
    /\ columns_hint = Nullopt
    /\ capacity = 0
    /\ values = PreviousValues
    /\ returned_info = NoInfo
    /\ wrapper_pc = "in_parse"
    /\ first_run = NotRun
    /\ parsed_values = <<>>
    /\ fault = "none"
    /\ ParserStateInit
    /\ NoUtilityCall

\* Mutation of InfoDimension: the size is not divided.
InfoDimensionNoDivision(size, other) == size

\* The dimension a flat wrapper computes from the final size and the other dimension.
InfoDimension(size, other) == IF other = 0 THEN 0 ELSE size \div other

\* Mutation of EmptyInfo: the order is left at its default.
EmptyInfoDefaultOrder(order) == MatrixInformation

\* The empty_info a flat wrapper returns when the container is empty.
EmptyInfo(order) == setOrder(MatrixInformation, order)

\* parseToVectorRowMajor after parse has returned.
parseToVectorRowMajorReturn ==
    /\ wrapper = "parseToVectorRowMajor"
    /\ wrapper_pc = "in_parse"
    /\ ParseCompleted
    /\ fault # "crashed"
    /\ values' = parsed_values
    /\ parsed_values' = values
    /\ IF parsed_values = <<>>
       THEN /\ returned_info' = EmptyInfo(RowMajor)
            /\ info' = info
       ELSE /\ info' = setRows(info, InfoDimension(Len(parsed_values), info.columns))
            /\ returned_info' = info'
    /\ wrapper_pc' = "returned"
    /\ UNCHANGED utilVars
    /\ UNCHANGED <<data, useEmptyCellType, field, cell_text, cell_hint, cell_value, first_run,
                   wrapper, rows, columns, rows_hint, columns_hint>>
    /\ UNCHANGED <<pos, machine_state, current_row, current_column, current_value,
                   escaped_quotes_encountered, cells, views, outcome, error>>
    /\ UNCHANGED <<unknown_columns, read_columns, fault, capacity>>

\* parseToVectorColumnMajor after parse has returned.
parseToVectorColumnMajorReturn ==
    /\ wrapper = "parseToVectorColumnMajor"
    /\ wrapper_pc = "in_parse"
    /\ ParseCompleted
    /\ fault # "crashed"
    /\ values' = parsed_values
    /\ parsed_values' = values
    /\ IF parsed_values = <<>>
       THEN /\ returned_info' = EmptyInfo(ColumnMajor)
            /\ info' = info
       ELSE /\ info' = setColumns(info, InfoDimension(Len(parsed_values), info.rows))
            /\ returned_info' = info'
    /\ wrapper_pc' = "returned"
    /\ UNCHANGED utilVars
    /\ UNCHANGED <<data, useEmptyCellType, field, cell_text, cell_hint, cell_value, first_run,
                   wrapper, rows, columns, rows_hint, columns_hint>>
    /\ UNCHANGED <<pos, machine_state, current_row, current_column, current_value,
                   escaped_quotes_encountered, cells, views, outcome, error>>
    /\ UNCHANGED <<unknown_columns, read_columns, fault, capacity>>

FlatNext ==
    \/ AtCellStart
    \/ InLeadingWhiteSpace
    \/ InsideUnquotedValue
    \/ InsideQuotedValue
    \/ AfterQuotedValue
    \/ parseToVectorRowMajorReturn
    \/ parseToVectorColumnMajorReturn

FlatSpec == FlatInit /\ [][FlatNext]_vars

\* ------- the same call of a flat wrapper with two different hints (HintSpec)

MaxHintLen == 3

\* The values a caller passes as rows_hint or columns_hint.
Hints == {Nullopt} \cup {Some(n) : n \in 0..MaxDim}

\* parsed_values.reserve(rows_hint * columns) at the start of parseToVectorRowMajor.
RowMajorReserve(hint) ==
    IF hint.has_value /\ columns.has_value THEN Reserve(0, hint.value * columns.value) ELSE 0

\* parsed_values.reserve(columns_hint * rows) at the start of parseToVectorColumnMajor.
ColumnMajorReserve(hint) ==
    IF hint.has_value THEN Reserve(0, hint.value * rows) ELSE 0

\* A call of parseTo2DVector, of parseToVectorRowMajor with any rows_hint or
\* of parseToVectorColumnMajor with any columns_hint, up to its call of parse.
HintInit ==
    /\ data \in StringsUpTo(MatrixAlphabet, MaxHintLen)
    /\ useEmptyCellType = TRUE
    /\ field = <<>>
    /\ NoCell
    /\ \/ /\ RowMajorInit
          /\ rows_hint \in Hints
          /\ columns_hint = Nullopt
          /\ capacity = RowMajorReserve(rows_hint)
          /\ values = PreviousValues
       \/ /\ ColumnMajorInit
          /\ rows_hint = Nullopt
          /\ columns_hint \in Hints
          /\ capacity = ColumnMajorReserve(columns_hint)
          /\ values = PreviousValues
       \/ /\ wrapper = "parseTo2DVector"
          /\ rows = 0
          /\ columns = Nullopt
          /\ info = MatrixInformation
          /\ unknown_columns = FALSE
          /\ read_columns = 0
          /\ rows_hint = Nullopt
          /\ columns_hint = Nullopt
          /\ capacity = 0
          /\ values = <<PreviousValues>>
    /\ returned_info = NoInfo
    /\ wrapper_pc = "in_parse"
    /\ first_run = NotRun
    /\ parsed_values = <<>>
    /\ fault = "none"
    /\ ParserStateInit
    /\ NoUtilityCall

\* The call of a flat wrapper has ended: it returned, it threw, or the process
\* was stopped by a write outside the container.
CallEnded == wrapper_pc = "returned" \/ outcome = "error" \/ fault = "crashed"

\* The caller keeps what the first call did and calls the same flat wrapper
\* again with the same data, container and dimension, and another hint.
CallWithOtherHint ==
    /\ wrapper \in {"parseToVectorRowMajor", "parseToVectorColumnMajor"}
    /\ CallEnded
    /\ first_run = NotRun
    /\ first_run' = [cells |-> cells, outcome |-> outcome, error |-> error,
                     values |-> values, returned_info |-> returned_info, fault |-> fault]
    /\ IF wrapper = "parseToVectorRowMajor"
       THEN /\ rows_hint' \in Hints \ {rows_hint}
            /\ columns_hint' = columns_hint
            /\ capacity' = RowMajorReserve(rows_hint')
            /\ info' = IF columns.has_value
                       THEN setColumns(setOrder(MatrixInformation, RowMajor), columns.value)
                       ELSE setOrder(MatrixInformation, RowMajor)
            /\ unknown_columns' = ~columns.has_value
       ELSE /\ columns_hint' \in Hints \ {columns_hint}
            /\ rows_hint' = rows_hint
            /\ capacity' = ColumnMajorReserve(columns_hint')
            /\ info' = setRows(setOrder(MatrixInformation, ColumnMajor), rows)
            /\ unknown_columns' = FALSE
    /\ read_columns' = 0
    /\ values' = PreviousValues
    /\ returned_info' = NoInfo
    /\ wrapper_pc' = "in_parse"
    /\ parsed_values' = <<>>
    /\ fault' = "none"
    /\ pos' = 0
    /\ machine_state' = "AtCellStart"
    /\ current_row' = 0
    /\ current_column' = 0
    /\ current_value' = NullView
    /\ escaped_quotes_encountered' = FALSE
    /\ cells' = <<>>
    /\ views' = <<>>
    /\ outcome' = "running"
    /\ error' = NoError
    /\ UNCHANGED utilVars
    /\ UNCHANGED <<data, useEmptyCellType, field, cell_text, cell_hint, cell_value,
                   wrapper, rows, columns>>

HintNext ==
    \/ AtCellStart
    \/ InLeadingWhiteSpace
    \/ InsideUnquotedValue
    \/ InsideQuotedValue
    \/ AfterQuotedValue
    \/ parseTo2DVectorReturn
    \/ parseToVectorRowMajorReturn
    \/ parseToVectorColumnMajorReturn
    \/ CallWithOtherHint

HintSpec == HintInit /\ [][HintNext]_vars

\* ------------------------------ MatrixInformation::matrixIndex (IndexSpec)

\* A MatrixInformation with any dimensions and order, and any row and column.
IndexInit ==
    /\ NoException
    /\ NoOtherCall
    /\ NoNumberCall
    /\ NoCleanCall
    /\ NoBuffer
    /\ NoCellValue
    /\ info \in [rows : 0..MaxDim, columns : 0..MaxDim, order : {RowMajor, ColumnMajor}]
    /\ matrix_row \in 0..MaxDim
    /\ matrix_column \in 0..MaxDim
    /\ matrix_index = Nullopt
    /\ static_index = Nullopt
    /\ NoGrid
    /\ data = <<>>
    /\ useEmptyCellType = TRUE
    /\ field = <<>>
    /\ NoCell
    /\ wrapper = "parse"
    /\ rows = 0
    /\ columns = Nullopt
    /\ values = <<>>
    /\ returned_info = NoInfo
    /\ wrapper_pc = "in_parse"
    /\ first_run = NotRun
    /\ parsed_values = <<>>
    /\ unknown_columns = FALSE
    /\ read_columns = 0
    /\ fault = "none"
    /\ rows_hint = Nullopt
    /\ columns_hint = Nullopt
    /\ capacity = 0
    /\ ParserStateInit

\* info.matrixIndex(row, column), and the static matrixIndex called with the
\* rows, columns and order stored in info.
CallMatrixIndex ==
    /\ ~matrix_index.has_value
    /\ matrix_index' = Some(MatrixIndexOf(info, matrix_row, matrix_column))
    /\ static_index' =
          Some(matrixIndex(matrix_row, matrix_column, info.rows, info.columns, info.order))
    /\ UNCHANGED <<matrix_row, matrix_column, grid, line_break, owned_value, Size,
                   has_escaped_quotes, buffer_, clean_string, number_type, number_value, element>>
    /\ UNCHANGED <<data, useEmptyCellType, field, cell_text, cell_hint, cell_value, first_run,
                   wrapper, rows, columns, values, returned_info, wrapper_pc,
                   rows_hint, columns_hint>>
    /\ UNCHANGED <<exception, other_call>>
    /\ UNCHANGED parseVars

IndexNext == CallMatrixIndex

IndexSpec == IndexInit /\ [][IndexNext]_vars

\* ------------------- a grid of cell texts joined and parsed (GridSpec)

MaxGridCells == 4

\* Cell texts without double-quote, comma, CR or LF.
GridTexts == {<<>>, <<Letter>>, <<Space>>, <<Space, Letter>>}

\* The line breaks a caller may put between two rows.
GridLineBreaks == {<<LF>>, <<CR>>, <<CR, LF>>}

\* The number of row ends before cell k, where ends[i] says that a row ends
\* after cell i.
RowOfCell(ends, k) == Cardinality({i \in 1..(k - 1) : ends[i]})

\* The grid with the cells c in order, a new row starting after every cell
\* i with ends[i].
GridOf(c, ends) ==
    IF c = <<>> THEN <<>>
    ELSE [r \in 1..(RowOfCell(ends, Len(c)) + 1) |->
            LET first == CHOOSE k \in 1..Len(c) :
                            /\ RowOfCell(ends, k) = r - 1
                            /\ \A j \in 1..(k - 1) : RowOfCell(ends, j) < r - 1
                 width == Cardinality({k \in 1..Len(c) : RowOfCell(ends, k) = r - 1})
            IN [j \in 1..width |-> c[first + j - 1]]]

\* Every grid of at most n cells in rows of at least one cell.
GridsUpTo(n) ==
    UNION {{GridOf(c, ends) : c \in [1..m -> GridTexts], ends \in [1..(m - 1) -> BOOLEAN]} :
           m \in 0..n}

\* The cells of one row joined with ','.
RECURSIVE JoinCells(_)
JoinCells(row) ==
    IF Len(row) = 1 THEN row[1] ELSE row[1] \o <<Comma>> \o JoinCells(Tail(row))

\* The rows of a grid joined with a line break.
RECURSIVE JoinRows(_, _)
JoinRows(g, break) ==
    IF g = <<>> THEN <<>>
    ELSE IF Len(g) = 1 THEN JoinCells(g[1])
    ELSE JoinCells(g[1]) \o break \o JoinRows(Tail(g), break)

GridInit ==
    /\ NoException
    /\ NoOtherCall
    /\ NoNumberCall
    /\ NoCleanCall
    /\ NoBuffer
    /\ NoCellValue
    /\ grid \in GridsUpTo(MaxGridCells)
    /\ line_break \in GridLineBreaks
    /\ data = JoinRows(grid, line_break)
    /\ useEmptyCellType \in BOOLEAN
    /\ field = <<>>
    /\ NoCell
    /\ NoWrapper
    /\ ParserStateInit
    /\ NoIndexCall

GridNext ==
    \/ AtCellStart
    \/ InLeadingWhiteSpace
    \/ InsideUnquotedValue

GridSpec == GridInit /\ [][GridNext]_vars

\* ---------------- constructing a CellReference and a CellValue (ValueSpec)

MaxValueLen == 4

ValueAlphabet == {Quote, Digit, Letter, Space}

ValueInit ==
    /\ NoException
    /\ NoOtherCall
    /\ NoNumberCall
    /\ NoCleanCall
    /\ NoBuffer
    /\ cell_text \in StringsUpTo(ValueAlphabet, MaxValueLen)
    /\ cell_hint \in CellTypeHint
    /\ cell_value = NotConstructed
    /\ owned_value = NotConstructed
    /\ data = <<>>
    /\ useEmptyCellType = TRUE
    /\ field = <<>>
    /\ NoWrapper
    /\ ParserStateInit
    /\ NoIndexCall
    /\ NoGrid

ConstructCellValue ==
    /\ owned_value = NotConstructed
    /\ owned_value' = CellValue(cell_text, cell_hint)
    /\ UNCHANGED <<matrix_row, matrix_column, matrix_index, static_index, grid, line_break,
                   Size, has_escaped_quotes, buffer_, clean_string, number_type, number_value,
                   element>>
    /\ UNCHANGED <<data, useEmptyCellType, field, cell_text, cell_hint, cell_value, first_run,
                   wrapper, rows, columns, values, returned_info, wrapper_pc,
                   rows_hint, columns_hint>>
    /\ UNCHANGED <<exception, other_call>>
    /\ UNCHANGED parseVars

ValueNext == ConstructCell \/ ConstructCellValue

ValueSpec == ValueInit /\ [][ValueNext]_vars

\* ------------------------- constructing a CellStringBuffer (BufferSpec)

MaxBufferLen == 4

BufferAlphabet == {Quote, Letter}

BufferInit ==
    /\ NoException
    /\ NoOtherCall
    /\ NoNumberCall
    /\ NoCleanCall
    /\ cell_text \in StringsUpTo(BufferAlphabet, MaxBufferLen)
    /\ has_escaped_quotes \in BOOLEAN
    /\ Size \in 0..MaxBufferLen
    /\ buffer_ = NotConstructed
    /\ cell_hint = HintEmpty
    /\ cell_value = NotConstructed
    /\ data = <<>>
    /\ useEmptyCellType = TRUE
    /\ field = <<>>
    /\ NoWrapper
    /\ ParserStateInit
    /\ NoIndexCall
    /\ NoGrid
    /\ NoCellValue

\* CellStringBuffer<Size>(cell, has_escaped_quotes)
ConstructBuffer ==
    /\ buffer_ = NotConstructed
    /\ buffer_' = prepareBuffer(Size, cell_text, has_escaped_quotes)
    /\ UNCHANGED <<matrix_row, matrix_column, matrix_index, static_index, grid, line_break,
                   owned_value, Size, has_escaped_quotes, clean_string,
                   number_type, number_value, element, exception, other_call>>
    /\ UNCHANGED <<data, useEmptyCellType, field, cell_text, cell_hint, cell_value, first_run,
                   wrapper, rows, columns, values, returned_info, wrapper_pc,
                   rows_hint, columns_hint>>
    /\ UNCHANGED <<exception, other_call>>
    /\ UNCHANGED parseVars

BufferNext == ConstructBuffer

BufferSpec == BufferInit /\ [][BufferNext]_vars

\* ------------------------------------------ calling cleanString (CleanSpec)

MaxCleanLen == 6

CleanAlphabet == {Quote, Letter}

CleanInit ==
    /\ NoException
    /\ NoOtherCall
    /\ NoNumberCall
    /\ cell_text \in StringsUpTo(CleanAlphabet, MaxCleanLen)
    /\ clean_string = Nullopt
    /\ cell_hint = HintEmpty
    /\ cell_value = NotConstructed
    /\ data = <<>>
    /\ useEmptyCellType = TRUE
    /\ field = <<>>
    /\ NoWrapper
    /\ ParserStateInit
    /\ NoIndexCall
    /\ NoGrid
    /\ NoCellValue
    /\ NoBuffer

\* cleanString(cell_text)
CallCleanString ==
    /\ ~clean_string.has_value
    /\ clean_string' = Some(cleanString(cell_text))
    /\ UNCHANGED <<matrix_row, matrix_column, matrix_index, static_index, grid, line_break,
                   owned_value, Size, has_escaped_quotes, buffer_, number_type, number_value,
                   element>>
    /\ UNCHANGED <<data, useEmptyCellType, field, cell_text, cell_hint, cell_value, first_run,
                   wrapper, rows, columns, values, returned_info, wrapper_pc,
                   rows_hint, columns_hint>>
    /\ UNCHANGED <<exception, other_call>>
    /\ UNCHANGED parseVars

CleanNext == CallCleanString

CleanSpec == CleanInit /\ [][CleanNext]_vars

\* --------------------------------------- calling readNumber (ReadNumberSpec)

MaxNumberLen == 4

NumberAlphabet ==
    {Space, Digit, Minus, Plus, Point, ExpLower, Letter, LetterI, LetterN, LetterF}

ReadNumberInit ==
    /\ NoException
    /\ NoOtherCall
    /\ cell_text \in StringsUpTo(NumberAlphabet, MaxNumberLen)
    /\ number_type \in NumberTypes
    /\ number_value = NotCalled
    /\ element = NotCalled
    /\ cell_hint = HintEmpty
    /\ cell_value = NotConstructed
    /\ data = <<>>
    /\ useEmptyCellType = TRUE
    /\ field = <<>>
    /\ NoWrapper
    /\ ParserStateInit
    /\ NoIndexCall
    /\ NoGrid
    /\ NoCellValue
    /\ NoBuffer
    /\ NoCleanCall

\* readNumber<number_type>(cell_text)
CallReadNumber ==
    /\ number_value = NotCalled
    /\ number_value' = readNumber(cell_text, number_type)
    /\ UNCHANGED <<matrix_row, matrix_column, matrix_index, static_index, grid, line_break,
                   owned_value, Size, has_escaped_quotes, buffer_, clean_string, number_type,
                   element>>
    /\ UNCHANGED <<data, useEmptyCellType, field, cell_text, cell_hint, cell_value, first_run,
                   wrapper, rows, columns, values, returned_info, wrapper_pc,
                   rows_hint, columns_hint>>
    /\ UNCHANGED <<exception, other_call>>
    /\ UNCHANGED parseVars

ReadNumberNext == CallReadNumber

ReadNumberSpec == ReadNumberInit /\ [][ReadNumberNext]_vars

\* ------------------------- creating an arithmetic element (CreateSpec)

CreateAlphabet == {Space, Digit, Minus, Point, ExpLower, Letter, Quote}

\* The cell and hint pairs the parser passes to the sink.
CreateInit ==
    /\ NoException
    /\ NoOtherCall
    /\ cell_text \in StringsUpTo(CreateAlphabet, MaxNumberLen)
    /\ cell_hint \in CellTypeHint
    /\ cell_hint = HintEmpty => cell_text = <<>>
    /\ cell_hint = HintUnquotedData => \A i \in 1..Len(cell_text) : cell_text[i] # Quote
    /\ number_type \in NumberTypes
    /\ number_value = NotCalled
    /\ element = NotCalled
    /\ cell_value = NotConstructed
    /\ data = <<>>
    /\ useEmptyCellType = TRUE
    /\ field = <<>>
    /\ NoWrapper
    /\ ParserStateInit
    /\ NoIndexCall
    /\ NoGrid
    /\ NoCellValue
    /\ NoBuffer
    /\ NoCleanCall

\* parsed_values[index] = BehaviorPolicy::create<number_type>(cell_text, cell_hint)
CallCreate ==
    /\ element = NotCalled
    /\ element' = createArithmetic(cell_text, cell_hint, number_type)
    /\ UNCHANGED <<matrix_row, matrix_column, matrix_index, static_index, grid, line_break,
                   owned_value, Size, has_escaped_quotes, buffer_, clean_string, number_type,
                   number_value>>
    /\ UNCHANGED <<data, useEmptyCellType, field, cell_text, cell_hint, cell_value, first_run,
                   wrapper, rows, columns, values, returned_info, wrapper_pc,
                   rows_hint, columns_hint>>
    /\ UNCHANGED <<exception, other_call>>
    /\ UNCHANGED parseVars

CreateNext == CallCreate

CreateSpec == CreateInit /\ [][CreateNext]_vars

\* ------------------------------ throwing a ParseError (ErrorSpec)

MaxErrorPos == 10

\* parse at any position of its input, before it throws.
ErrorInit ==
    /\ current_row \in 0..MaxErrorPos
    /\ current_column \in 0..MaxErrorPos
    /\ pos = 0
    /\ machine_state = "AtCellStart"
    /\ current_value = NullView
    /\ escaped_quotes_encountered = FALSE
    /\ cells = <<>>
    /\ views = <<>>
    /\ outcome = "running"
    /\ error = NoError
    /\ data = <<>>
    /\ useEmptyCellType = TRUE
    /\ field = <<>>
    /\ NoCell
    /\ NoWrapper
    /\ NoUtilityCall

\* throw ParseError(state.current_row, state.current_column), with the
\* exception object the throw constructs.
ThrowParseErrorObject ==
    /\ outcome = "running"
    /\ ThrowParseError
    /\ exception' = ParseError(current_row, current_column)
    /\ UNCHANGED other_call
    /\ UNCHANGED <<matrix_row, matrix_column, matrix_index, static_index, grid, line_break,
                   owned_value, Size, has_escaped_quotes, buffer_, clean_string, number_type,
                   number_value, element>>
    /\ UNCHANGED <<data, useEmptyCellType, field, cell_text, cell_hint, cell_value, first_run,
                   wrapper, rows, columns, values, returned_info, wrapper_pc,
                   rows_hint, columns_hint>>

ErrorNext == ThrowParseErrorObject

ErrorSpec == ErrorInit /\ [][ErrorNext]_vars

\* ------------------------------- concurrent calls of parse (ConcurrentSpec)

MaxConcurrentLen == 4

\* parse of any text, first by one call alone.
ConcurrentInit ==
    /\ data \in StringsUpTo(Alphabet, MaxConcurrentLen)
    /\ useEmptyCellType = TRUE
    /\ field = <<>>
    /\ NoCell
    /\ NoWrapper
    /\ ParserStateInit
    /\ NoUtilityCall

\* The locals of the scheduled call of parse: state, pos, and what its sink
\* has received.
SavedCall ==
    [pos |-> pos, machine_state |-> machine_state, current_row |-> current_row,
     current_column |-> current_column, current_value |-> current_value,
     escaped_quotes_encountered |-> escaped_quotes_encountered,
     cells |-> cells, views |-> views, outcome |-> outcome, error |-> error]

\* The locals of a call of parse that has not made a step.
StartedCall ==
    [pos |-> 0, machine_state |-> "AtCellStart", current_row |-> 0,
     current_column |-> 0, current_value |-> NullView,
     escaped_quotes_encountered |-> FALSE,
     cells |-> <<>>, views |-> <<>>, outcome |-> "running", error |-> NoError]

\* Mutation of Resume: the ParserState is one object shared by the calls.
ResumeSharedParserState(s) ==
    /\ pos' = s.pos
    /\ cells' = s.cells
    /\ views' = s.views
    /\ outcome' = s.outcome
    /\ error' = s.error
    /\ UNCHANGED <<machine_state, current_row, current_column, current_value,
                   escaped_quotes_encountered>>

\* The call with the locals s is scheduled: state and pos are objects of its
\* own activation of parse.
Resume(s) ==
    /\ pos' = s.pos
    /\ machine_state' = s.machine_state
    /\ current_row' = s.current_row
    /\ current_column' = s.current_column
    /\ current_value' = s.current_value
    /\ escaped_quotes_encountered' = s.escaped_quotes_encountered
    /\ cells' = s.cells
    /\ views' = s.views
    /\ outcome' = s.outcome
    /\ error' = s.error

\* The caller keeps what the call made alone did, and starts two calls of
\* parse on the same text, each with its own sink.
StartConcurrentCalls ==
    /\ outcome # "running"
    /\ first_run = NotRun
    /\ other_call = NotStarted
    /\ first_run' = [cells |-> cells, outcome |-> outcome, error |-> error]
    /\ Resume(StartedCall)
    /\ other_call' = StartedCall
    /\ UNCHANGED <<matrix_row, matrix_column, matrix_index, static_index, grid, line_break,
                   owned_value, Size, has_escaped_quotes, buffer_, clean_string, number_type,
                   number_value, element, exception>>
    /\ UNCHANGED <<data, useEmptyCellType, field, cell_text, cell_hint, cell_value, wrapper,
                   rows, columns, values, returned_info, wrapper_pc, rows_hint, columns_hint>>
    /\ UNCHANGED assemblyVars

\* The scheduler takes the running call off and puts the other call on,
\* between any two steps.
SwitchCall ==
    /\ other_call # NotStarted
    /\ Resume(other_call)
    /\ other_call' = SavedCall
    /\ UNCHANGED <<matrix_row, matrix_column, matrix_index, static_index, grid, line_break,
                   owned_value, Size, has_escaped_quotes, buffer_, clean_string, number_type,
                   number_value, element, exception>>
    /\ UNCHANGED <<data, useEmptyCellType, field, cell_text, cell_hint, cell_value, first_run,
                   wrapper, rows, columns, values, returned_info, wrapper_pc, rows_hint,
                   columns_hint>>
    /\ UNCHANGED assemblyVars

ConcurrentNext ==
    \/ AtCellStart
    \/ InLeadingWhiteSpace
    \/ InsideUnquotedValue
    \/ InsideQuotedValue
    \/ AfterQuotedValue
    \/ StartConcurrentCalls
    \/ SwitchCall

ConcurrentSpec == ConcurrentInit /\ [][ConcurrentNext]_vars

\* --------------- the three vector assemblies of one text (AssemblySpec)

MaxAssemblyLen == 5

\* parseTo2DVector(data, values) up to its call of parse.
AssemblyInit ==
    /\ data \in StringsUpTo(MatrixAlphabet, MaxAssemblyLen)
    /\ useEmptyCellType = TRUE
    /\ field = <<>>
    /\ NoCell
    /\ wrapper = "parseTo2DVector"
    /\ rows = 0
    /\ columns = Nullopt
    /\ info = MatrixInformation
    /\ unknown_columns = FALSE
    /\ read_columns = 0
    /\ rows_hint = Nullopt
    /\ columns_hint = Nullopt
    /\ capacity = 0
    /\ values = <<PreviousValues>>
    /\ returned_info = NoInfo
    /\ wrapper_pc = "in_parse"
    /\ first_run = NotRun
    /\ parsed_values = <<>>
    /\ fault = "none"
    /\ ParserStateInit
    /\ NoUtilityCall

\* The number of rows and of columns of the cells cs that parse emitted.
GridRows(cs) == IF cs = <<>> THEN 0 ELSE cs[Len(cs)].row + 1

GridColumns(cs) == Cardinality({i \in 1..Len(cs) : cs[i].row = 0})

\* The cells cs are those of a grid of GridRows(cs) rows of GridColumns(cs)
\* cells each, row after row.
RectangularGrid(cs) ==
    /\ cs # <<>>
    /\ Len(cs) = GridRows(cs) * GridColumns(cs)
    /\ \A i \in 1..Len(cs) :
          /\ cs[i].row = (i - 1) \div GridColumns(cs)
          /\ cs[i].column = (i - 1) % GridColumns(cs)

\* The caller keeps the nested container of a rectangular text and calls
\* parseToVectorRowMajor(data, values, std::nullopt, C) with the number of
\* columns of the grid.
CallRowMajorWithColumns ==
    /\ wrapper = "parseTo2DVector"
    /\ wrapper_pc = "returned"
    /\ RectangularGrid(cells)
    /\ first_run' = [cells |-> cells, outcome |-> outcome, error |-> error,
                     nested |-> values, row_major |-> <<>>]
    /\ wrapper' = "parseToVectorRowMajor"
    /\ columns' = Some(GridColumns(cells))
    /\ info' = setColumns(setOrder(MatrixInformation, RowMajor), GridColumns(cells))
    /\ unknown_columns' = FALSE
    /\ read_columns' = 0
    /\ capacity' = 0
    /\ values' = PreviousValues
    /\ parsed_values' = <<>>
    /\ returned_info' = NoInfo
    /\ wrapper_pc' = "in_parse"
    /\ Resume(StartedCall)
    /\ UNCHANGED utilVars
    /\ UNCHANGED <<data, useEmptyCellType, field, cell_text, cell_hint, cell_value, rows,
                   fault, rows_hint, columns_hint>>

\* The caller keeps the row-major container and calls
\* parseToVectorColumnMajor(data, values, R) with the number of rows of the grid.
CallColumnMajorWithRows ==
    /\ wrapper = "parseToVectorRowMajor"
    /\ wrapper_pc = "returned"
    /\ first_run' = [first_run EXCEPT !.row_major = values]
    /\ wrapper' = "parseToVectorColumnMajor"
    /\ rows' = GridRows(cells)
    /\ columns' = Nullopt
    /\ info' = setRows(setOrder(MatrixInformation, ColumnMajor), GridRows(cells))
    /\ unknown_columns' = FALSE
    /\ read_columns' = 0
    /\ capacity' = 0
    /\ values' = PreviousValues
    /\ parsed_values' = <<>>
    /\ returned_info' = NoInfo
    /\ wrapper_pc' = "in_parse"
    /\ Resume(StartedCall)
    /\ UNCHANGED utilVars
    /\ UNCHANGED <<data, useEmptyCellType, field, cell_text, cell_hint, cell_value,
                   fault, rows_hint, columns_hint>>

AssemblyNext ==
    \/ AtCellStart
    \/ InLeadingWhiteSpace
    \/ InsideUnquotedValue
    \/ InsideQuotedValue
    \/ AfterQuotedValue
    \/ parseTo2DVectorReturn
    \/ CallRowMajorWithColumns
    \/ parseToVectorRowMajorReturn
    \/ CallColumnMajorWithRows
    \/ parseToVectorColumnMajorReturn

AssemblySpec == AssemblyInit /\ [][AssemblyNext]_vars

\* ================================================================ properties

Range(s) == {s[i] : i \in 1..Len(s)}

Last(s) == s[Len(s)]

WhiteSpace == {Space, Tab}

LineBreaks == {CR, LF}

\* Reference reading of the text, independent of the state machine: a position
\* is inside a quoted value when an odd number of double-quotes precedes it.
QuotesIn(d, n) == Cardinality({i \in 1..n : d[i] = Quote})

OutsideQuotes(d, i) == QuotesIn(d, i - 1) % 2 = 0

\* d[i] ends a row: a CR or LF outside quotes that is not the LF of a CR LF pair.
EndsRow(d, i) ==
    /\ d[i] \in LineBreaks
    /\ OutsideQuotes(d, i)
    /\ ~(d[i] = LF /\ i > 1 /\ d[i - 1] = CR)

\* The row and column of the cell that the first n characters of d lead into.
RefRow(d, n) == Cardinality({i \in 1..n : EndsRow(d, i)})

RefColumn(d, n) ==
    Cardinality({i \in 1..n : /\ d[i] = Comma
                              /\ OutsideQuotes(d, i)
                              /\ \A j \in (i + 1)..n : ~EndsRow(d, j)})

\* ------------------------------------------------------------------------ C1
\* C1: the sink calls of one parse start at (row 0, column 0) and every later
\* call is either (same row, previous column + 1) or (previous row + 1,
\* column 0): strictly increasing (row, column) order, no gap, no repetition.
C1_SinkOrder ==
    /\ cells # <<>> => cells[1].row = 0 /\ cells[1].column = 0
    /\ \A i \in 2..Len(cells) :
          \/ cells[i].row = cells[i - 1].row /\ cells[i].column = cells[i - 1].column + 1
          \/ cells[i].row = cells[i - 1].row + 1 /\ cells[i].column = 0

C1_Witness ==
    /\ outcome = "returned"
    /\ Len(cells) >= 3
    /\ cells[2].row = 0 /\ cells[2].column = 1
    /\ cells[3].row = 1 /\ cells[3].column = 0

\* ------------------------------------------------------------------------ C2
\* C2: parsing the single field made by doubling every double-quote of a
\* string t and wrapping it in double-quotes ends without error with exactly
\* one cell, at (0, 0), whose text cleaned by cleanString equals t and whose
\* hint is StringWithEscapedQuotes if t contains a double-quote and
\* StringWithoutEscapedQuotes otherwise.
C2_QuotedFieldRoundTrip ==
    /\ Len(cells) <= 1
    /\ outcome # "running" =>
          /\ outcome = "returned"
          /\ Len(cells) = 1
          /\ cells[1].row = 0
          /\ cells[1].column = 0
          /\ cleanString(cells[1].text) = field
          /\ cells[1].hint = IF Quote \in Range(field)
                             THEN HintStringWithEscapedQuotes
                             ELSE HintStringWithoutEscapedQuotes

C2_Witness ==
    /\ outcome = "returned"
    /\ Len(cells) = 1
    /\ {Quote, Comma, LF} \subseteq Range(field)

\* ------------------------------------------------------------------------ C3
\* The strings of the number grammar on the characters of the model, of
\* length at most n: [-]digits, optionally followed by e or E and [-]digits,
\* the exponent short enough for the number to be in the range of double.
DigitStrings(n) == {[i \in 1..k |-> Digit] : k \in 1..n}

SignedDigitStrings(n) == DigitStrings(n) \cup {<<Minus>> \o d : d \in DigitStrings(n)}

NumberStrings(n) ==
    SignedDigitStrings(n) \cup
    {m \o <<e>> \o x : m \in SignedDigitStrings(n), e \in {ExpLower, ExpUpper},
                       x \in SignedDigitStrings(MaxExponentDigits("double"))}

\* t without its leading and trailing spaces and tabs.
StripSpacesTabs(t) ==
    LET keep == {i \in 1..Len(t) : t[i] \notin WhiteSpace}
    IN IF keep = {} THEN <<>>
       ELSE SubSeq(t, CHOOSE i \in keep : \A j \in keep : i <= j,
                      CHOOSE i \in keep : \A j \in keep : j <= i)

\* The whole of t is taken by the number conversion, which itself skips
\* leading whitespace (spaces and tabs, and also a form feed).
ParsesAsNumber(t) ==
    \E k \in 0..Len(t) :
        /\ \A i \in 1..k : IsSpace(t[i])
        /\ SubSeq(t, k + 1, Len(t)) \in NumberStrings(Len(t))

\* C3: a fully typed cell value is Double exactly when its hint is
\* UnquotedData and its whole text, ignoring surrounding spaces and tabs,
\* parses as a number; an Empty hint gives Empty; every other cell is String
\* and keeps its original text.
C3_CellType ==
    cell_value # NotConstructed =>
        /\ cell_value.type \in {"Empty", "Double", "String"}
        /\ cell_value.type = "Double" <=>
              (cell_hint = HintUnquotedData /\ ParsesAsNumber(StripSpacesTabs(cell_text)))
        /\ cell_value.type = "Empty" <=> cell_hint = HintEmpty
        /\ cell_value.type = "String" => cell_value.view = cell_text

C3_Witness ==
    /\ cell_value.type = "Double"
    /\ cell_text = <<Space, Digit, Tab>>

\* ------------------------------------------------------------------------ C4
\* C4: when the end of input is reached inside a quoted value, parse raises a
\* parse error whose row and column are those of the quoted cell, the row
\* counting only the line breaks outside quoted values; no cell is emitted
\* by that step.
C4_UnterminatedQuote ==
    [][(outcome = "running" /\ machine_state = "InsideQuotedValue" /\ pos >= Len(data)) =>
          /\ outcome' = "error"
          /\ error' = [row |-> RefRow(data, Len(data)), column |-> RefColumn(data, Len(data))]
          /\ cells' = cells]_vars

C4_Witness ==
    /\ outcome = "error"
    /\ machine_state = "InsideQuotedValue"
    /\ error = [row |-> 1, column |-> 2]
    /\ \E i \in 1..Len(data) : data[i] \in LineBreaks /\ ~OutsideQuotes(data, i)

\* ------------------------------------------------------------------------ C5
\* C5: inside an unquoted value a double-quote that is not immediately
\* followed by another double-quote (also as the last character of the
\* input) raises a parse error for the current cell; two adjacent
\* double-quotes are consumed together, both kept in the token text, and the
\* cell is emitted with hint StringWithEscapedQuotes.
C5_QuoteInUnquoted ==
    [][(outcome = "running" /\ machine_state = "InsideUnquotedValue") =>
          /\ (pos < Len(data) /\ data[pos + 1] = Quote) =>
                IF pos + 1 < Len(data) /\ data[pos + 2] = Quote
                THEN /\ outcome' = "running"
                     /\ machine_state' = "InsideUnquotedValue"
                     /\ pos' = pos + 2
                     /\ cells' = cells
                     /\ ViewText(data, current_value') =
                           ViewText(data, current_value) \o <<Quote, Quote>>
                ELSE /\ outcome' = "error"
                     /\ error' = [row |-> RefRow(data, pos), column |-> RefColumn(data, pos)]
                     /\ cells' = cells
          /\ cells' # cells =>
                /\ Last(cells').text = ViewText(data, current_value)
                /\ Last(cells').hint = IF Quote \in Range(Last(cells').text)
                                       THEN HintStringWithEscapedQuotes
                                       ELSE HintUnquotedData]_vars

\* An escaped pair was consumed into the token, then a lone quote that is the
\* last character of the input raised the error.
C5_Witness ==
    /\ outcome = "error"
    /\ machine_state = "InsideUnquotedValue"
    /\ pos = Len(data) - 1
    /\ escaped_quotes_encountered
    /\ ViewText(data, current_value) = <<Letter, Quote, Quote>>
    /\ cells = <<>>
    /\ error = [row |-> 0, column |-> 0]

\* ------------------------------------------------------------------------ C6
\* The first cell of d begins, after optional spaces and tabs, with two
\* double-quotes directly followed by text.
BeginsWithEscapedQuote(d) ==
    \E k \in 0..(Len(d) - 3) :
        /\ \A i \in 1..k : d[i] \in WhiteSpace
        /\ d[k + 1] = Quote
        /\ d[k + 2] = Quote
        /\ d[k + 3] \notin WhiteSpace \cup LineBreaks \cup {Comma, Quote}

\* C6: after the closing quote of a quoted value any character other than
\* space, tab, comma, CR, LF or end of input raises a parse error for that
\* cell; so a cell that begins with two double-quotes directly followed by
\* text is an error.
C6_TextAfterClosingQuote ==
    /\ [][(/\ outcome = "running"
           /\ machine_state = "AfterQuotedValue"
           /\ pos < Len(data)
           /\ data[pos + 1] \notin WhiteSpace \cup LineBreaks \cup {Comma}) =>
              /\ outcome' = "error"
              /\ error' = [row |-> Last(cells).row, column |-> Last(cells).column]
              /\ cells' = cells]_vars
    /\ []((outcome # "running" /\ BeginsWithEscapedQuote(data)) =>
              (outcome = "error" /\ error = [row |-> 0, column |-> 0]))

C6_Witness ==
    /\ outcome = "error"
    /\ machine_state = "AfterQuotedValue"
    /\ BeginsWithEscapedQuote(data)
    /\ data[1] \in WhiteSpace

\* ------------------------------------------------------------------------ C7
CellsAt(row, column) ==
    {i \in 1..Len(cells) : cells[i].row = row /\ cells[i].column = column}

\* C7 as stated: when parse raises a parse error the sink has not been called
\* for the cell at the error's (row, column).
C7_NoCellAtError ==
    outcome = "error" => CellsAt(error.row, error.column) = {}

\* C7 as amended: when parse raises a parse error the sink is not called
\* afterwards and no cell after the error's (row, column) has been emitted;
\* the cell at the error's (row, column) has not been emitted either, except
\* when the error is raised for text after the closing quote of a quoted
\* value: that quoted cell has then been emitted exactly once, as the last
\* sink call.
C7_NoCellAtErrorUnlessAfterQuote ==
    /\ [](outcome = "error" =>
            /\ \A i \in 1..Len(cells) :
                  \/ cells[i].row < error.row
                  \/ cells[i].row = error.row /\ cells[i].column <= error.column
            /\ IF machine_state = "AfterQuotedValue"
               THEN CellsAt(error.row, error.column) = {Len(cells)}
               ELSE CellsAt(error.row, error.column) = {})
    /\ [][outcome = "error" => cells' = cells]_vars

C7_Witness ==
    /\ outcome = "error"
    /\ machine_state = "AfterQuotedValue"
    /\ error = [row |-> 1, column |-> 1]
    /\ Len(cells) = 3

\* ------------------------------------------------------------------------ C8
\* C8: outside quoted values a CR immediately followed by LF ends the row
\* once (both are consumed, the row counter advances by one), a CR or LF that
\* is not part of such a pair ends the row once on its own, and after every
\* line break the column counter is 0.
C8_LineBreaks ==
    /\ [][(/\ outcome = "running"
           /\ machine_state # "InsideQuotedValue"
           /\ pos < Len(data)
           /\ data[pos + 1] \in LineBreaks) =>
              /\ current_row' = current_row + 1
              /\ current_column' = 0
              /\ machine_state' = "AtCellStart"
              /\ pos' = IF data[pos + 1] = CR /\ pos + 1 < Len(data) /\ data[pos + 2] = LF
                        THEN pos + 2
                        ELSE pos + 1]_vars
    /\ [](outcome = "running" => current_row = RefRow(data, pos))

C8_Witness ==
    /\ outcome = "running"
    /\ machine_state = "AtCellStart"
    /\ pos = 3
    /\ data[2] = CR
    /\ data[3] = LF
    /\ current_row = 1
    /\ current_column = 0
    /\ Len(cells) = 1

\* ------------------------------------------------------------------------ C9
\* C9: a comma, CR or LF inside a quoted value is kept verbatim in the token
\* text and neither advances the row or column counter nor ends the cell.
C9_DelimitersInsideQuotes ==
    [][(/\ outcome = "running"
        /\ machine_state = "InsideQuotedValue"
        /\ pos < Len(data)
        /\ data[pos + 1] \in LineBreaks \cup {Comma}) =>
           /\ outcome' = "running"
           /\ machine_state' = "InsideQuotedValue"
           /\ current_row' = current_row
           /\ current_column' = current_column
           /\ cells' = cells
           /\ pos' = pos + 1
           /\ ViewText(data, current_value') =
                 Append(ViewText(data, current_value), data[pos + 1])]_vars

C9_Witness ==
    /\ outcome = "returned"
    /\ Len(cells) = 1
    /\ cells[1].text = <<Comma, CR, LF>>
    /\ cells[1].hint = HintStringWithoutEscapedQuotes

\* ----------------------------------------------------------------------- C10
\* C10: the token text of a quoted cell is exactly the characters strictly
\* between the opening quote and its closing quote: the spaces and tabs
\* before the opening quote and after the closing quote are discarded.
C10_QuotedText ==
    /\ [][(machine_state = "InsideQuotedValue" /\ machine_state' = "AfterQuotedValue") =>
             LET t == Last(cells').text
                 open == pos - Len(t)
                 before == {i \in 1..(open - 1) : data[i] \notin WhiteSpace}
             IN /\ Len(cells') = Len(cells) + 1
                /\ open >= 1
                /\ data[open] = Quote
                /\ OutsideQuotes(data, open)
                /\ t = SubSeq(data, open + 1, pos)
                /\ data[pos + 1] = Quote
                /\ \A i \in before :
                      (\A j \in before : j <= i) => data[i] \in LineBreaks \cup {Comma}]_vars
    /\ [][(/\ outcome = "running"
           /\ machine_state = "AfterQuotedValue"
           /\ pos < Len(data)
           /\ data[pos + 1] \in WhiteSpace) =>
              /\ cells' = cells
              /\ machine_state' = "AfterQuotedValue"
              /\ outcome' = "running"]_vars

C10_Witness ==
    /\ outcome = "returned"
    /\ Len(data) = 5
    /\ data[1] = Space
    /\ data[2] = Quote
    /\ data[5] = Tab
    /\ Len(cells) = 1
    /\ cells[1].text = <<Letter>>

\* ----------------------------------------------------------------------- C11
\* The number of characters of d before the cell that the first n characters
\* lead into: the position of the last comma or line break outside quotes.
CellStart(d, n) ==
    LET ends == {i \in 1..n : d[i] \in LineBreaks \cup {Comma} /\ OutsideQuotes(d, i)}
    IN IF ends = {} THEN 0 ELSE CHOOSE i \in ends : \A j \in ends : j <= i

\* C11: the token text of an unquoted cell is the entire raw text between the
\* surrounding delimiters, leading and trailing spaces and tabs included; a
\* cell of spaces and tabs only is emitted with that whitespace as its text
\* and the hint StringWithoutEscapedQuotes, never Empty or UnquotedData.
C11_UnquotedText ==
    [][(cells' # cells /\ machine_state \in {"InLeadingWhiteSpace", "InsideUnquotedValue"}) =>
          LET c == Last(cells')
          IN /\ Len(cells') = Len(cells) + 1
             /\ c.text = SubSeq(data, CellStart(data, pos) + 1, pos)
             /\ c.text # <<>>
             /\ (pos < Len(data) => data[pos + 1] \in LineBreaks \cup {Comma})
             /\ Range(c.text) \subseteq WhiteSpace <=> machine_state = "InLeadingWhiteSpace"
             /\ Range(c.text) \subseteq WhiteSpace => c.hint = HintStringWithoutEscapedQuotes
             /\ ~(Range(c.text) \subseteq WhiteSpace) =>
                   c.hint \in {HintUnquotedData, HintStringWithEscapedQuotes}]_vars

C11_Witness ==
    /\ outcome = "returned"
    /\ Len(cells) = 2
    /\ cells[1].text = <<Space, Letter, Tab>>
    /\ cells[1].hint = HintUnquotedData
    /\ cells[2].text = <<Tab>>
    /\ cells[2].hint = HintStringWithoutEscapedQuotes

\* ----------------------------------------------------------------------- C12
\* The number of commas outside quoted values in row r of d.
RowCommas(d, r) ==
    Cardinality({i \in 1..Len(d) : d[i] = Comma /\ OutsideQuotes(d, i) /\ RefRow(d, i) = r})

\* Nothing follows the last line break of d (or d is empty).
FinalSegmentEmpty(d) ==
    \/ d = <<>>
    \/ Last(d) \in LineBreaks /\ OutsideQuotes(d, Len(d))

CellsOfRow(r) == {i \in 1..Len(cells) : cells[i].row = r}

\* The cell emitted for an empty cell at (r, c) under the policy's empty-cell switch.
EmptyCellAt(r, c) ==
    [row |-> r, column |-> c, text |-> <<>>,
     hint |-> IF useEmptyCellType THEN HintEmpty ELSE HintStringWithoutEscapedQuotes]

\* C12: on an input that parses without error every row, except an empty
\* final segment after the last line break, yields exactly k + 1 cells, k
\* being the number of commas outside quoted values in that row; the input
\* "," yields two empty cells in row 0, and a comma directly before a line
\* break or the end of input yields a final empty cell.
C12_CellsPerRow ==
    outcome = "returned" =>
        LET lastRow == RefRow(data, Len(data))
        IN /\ \A i \in 1..Len(cells) : cells[i].row <= lastRow
           /\ \A r \in 0..lastRow :
                 Cardinality(CellsOfRow(r)) =
                     IF r = lastRow /\ FinalSegmentEmpty(data)
                     THEN 0
                     ELSE RowCommas(data, r) + 1
           /\ data = <<Comma>> => cells = <<EmptyCellAt(0, 0), EmptyCellAt(0, 1)>>
           /\ \A i \in 1..Len(data) :
                 (/\ data[i] = Comma
                  /\ OutsideQuotes(data, i)
                  /\ (i = Len(data) \/ data[i + 1] \in LineBreaks)) =>
                     \E j \in 1..Len(cells) :
                        /\ cells[j] = EmptyCellAt(RefRow(data, i), RefColumn(data, i))
                        /\ j = Len(cells) \/ cells[j + 1].row = cells[j].row + 1

C12_Witness ==
    /\ outcome = "returned"
    /\ data = <<Letter, Comma, LF, Comma, Comma>>
    /\ useEmptyCellType
    /\ Len(cells) = 5
    /\ cells[2] = EmptyCellAt(0, 1)
    /\ cells[5] = EmptyCellAt(1, 2)

\* ----------------------------------------------------------------------- C13
\* d[i] ends an empty line: a row-ending line break at the start of a row.
EndsEmptyLine(d, i) ==
    /\ EndsRow(d, i)
    /\ i = 1 \/ (d[i - 1] \in LineBreaks /\ OutsideQuotes(d, i - 1))

\* C13: end of input reached at column 0 (empty input, or directly after a
\* line break) emits no cell, so a trailing line break never creates an extra
\* row; end of input reached at a column greater than 0 at the start of a
\* cell emits one final empty cell; an empty line that is followed by more
\* input creates a row holding one empty cell.
C13_EndOfInput ==
    /\ [][(outcome = "running" /\ machine_state = "AtCellStart" /\ pos >= Len(data)) =>
             /\ outcome' = "returned"
             /\ cells' = IF RefColumn(data, Len(data)) = 0
                         THEN cells
                         ELSE Append(cells, EmptyCellAt(RefRow(data, Len(data)),
                                                        RefColumn(data, Len(data))))]_vars
    /\ [](outcome = "returned" =>
             /\ FinalSegmentEmpty(data) => CellsOfRow(RefRow(data, Len(data))) = {}
             /\ \A i \in 1..Len(data) :
                   (EndsEmptyLine(data, i) /\ i < Len(data)) =>
                       \E j \in 1..Len(cells) :
                          /\ CellsOfRow(RefRow(data, i - 1)) = {j}
                          /\ cells[j] = EmptyCellAt(RefRow(data, i - 1), 0))

C13_Witness ==
    /\ outcome = "returned"
    /\ data = <<Letter, LF, LF, Comma, LF>>
    /\ ~useEmptyCellType
    /\ Len(cells) = 4
    /\ cells[2] = EmptyCellAt(1, 0)
    /\ cells[4] = EmptyCellAt(2, 1)

\* ----------------------------------------------------------------------- C14
\* C14: switching the empty-cell type off changes hints only: the sequence of
\* (row, column, text) sink calls and the error outcome of a parse are the
\* same with the switch on and off, and the hints differ only in that every
\* Empty hint becomes StringWithoutEscapedQuotes, with empty text.
C14_SwitchChangesHintsOnly ==
    (first_run # NotRun /\ outcome # "running") =>
        /\ outcome = first_run.outcome
        /\ error = first_run.error
        /\ Len(cells) = Len(first_run.cells)
        /\ \A i \in 1..Len(cells) :
              /\ cells[i].row = first_run.cells[i].row
              /\ cells[i].column = first_run.cells[i].column
              /\ cells[i].text = first_run.cells[i].text
              /\ IF first_run.cells[i].hint = HintEmpty
                 THEN cells[i].hint = HintStringWithoutEscapedQuotes /\ cells[i].text = <<>>
                 ELSE cells[i].hint = first_run.cells[i].hint

C14_Witness ==
    /\ first_run # NotRun
    /\ outcome = "error"
    /\ Len(cells) = 2
    /\ first_run.cells[1].hint = HintEmpty
    /\ first_run.cells[2].hint = HintUnquotedData
    /\ cells[1].hint = HintStringWithoutEscapedQuotes
    /\ cells[2].hint = HintUnquotedData

\* ----------------------------------------------------------------------- C15
\* The number of cells emitted in row r, and in the widest row.
RowWidth(r) == Cardinality(CellsOfRow(r))

MaxOf(S) == IF S = {} THEN 0 ELSE CHOOSE x \in S : \A y \in S : y <= x

WidestRow == MaxOf({RowWidth(cells[i].row) : i \in 1..Len(cells)})

\* The rows that have a cell in column c.
RowsOfColumn(c) == {cells[i].row : i \in {j \in 1..Len(cells) : cells[j].column = c}}

\* The value a wrapper stores for the i-th emitted cell (no text over the
\* matrix alphabet is a number, so unquoted data is stored as a string).
CreatedCell(i) ==
    IF cells[i].hint = HintEmpty
    THEN [type |-> "Empty"]
    ELSE [type |-> "String", view |-> cells[i].text,
          has_escaped_quotes |-> cells[i].hint = HintStringWithEscapedQuotes]

\* C15: after a successful parseTo2DVector the result is a vector of
\* columns: the cell emitted at (row r, column c) is at values[c][r], the
\* outer size is the cell count of the widest row, values[c] has length
\* (index of the last row with a cell in column c) + 1, and every slot for
\* which no cell was emitted is default-constructed.
C15_Vector2D ==
    wrapper_pc = "returned" =>
        /\ Len(values) = WidestRow
        /\ \A c \in 1..Len(values) :
              /\ RowsOfColumn(c - 1) # {}
              /\ Len(values[c]) = MaxOf(RowsOfColumn(c - 1)) + 1
              /\ \A r \in 1..Len(values[c]) :
                    CellsAt(r - 1, c - 1) = {} => values[c][r] = DefaultCell
        /\ \A i \in 1..Len(cells) :
              /\ cells[i].column < Len(values)
              /\ cells[i].row < Len(values[cells[i].column + 1])
              /\ values[cells[i].column + 1][cells[i].row + 1] = CreatedCell(i)

C15_Witness ==
    /\ wrapper_pc = "returned"
    /\ data = <<Letter, LF, Space, Comma, Letter>>
    /\ values = << <<[type |-> "String", view |-> <<Letter>>, has_escaped_quotes |-> FALSE],
                     [type |-> "String", view |-> <<Space>>, has_escaped_quotes |-> FALSE]>>,
                   <<DefaultCell,
                     [type |-> "String", view |-> <<Letter>>, has_escaped_quotes |-> FALSE]>> >>

\* ----------------------------------------------------------------------- C16
\* The number of rows that have a cell.
NumRows == IF cells = <<>> THEN 0 ELSE Last(cells).row + 1

\* The emitted cells form a grid of at least one row, all rows of one width.
Rectangular == cells # <<>> /\ \A r \in 0..(NumRows - 1) : RowWidth(r) = RowWidth(0)

RowMajorDone == wrapper_pc = "returned" /\ wrapper = "parseToVectorRowMajor"

ColumnMajorDone == wrapper_pc = "returned" /\ wrapper = "parseToVectorColumnMajor"

\* C16: for every non-empty rectangular input of R >= 1 rows and C >= 1
\* columns parsed by parseToVectorRowMajor without an explicit column count,
\* the result has size R * C, the returned information reports rows = R and
\* columns = C, and cell (r, c) is at index r * C + c.
C16_InferredColumns ==
    (RowMajorDone /\ ~columns.has_value /\ Rectangular) =>
        /\ Len(values) = NumRows * RowWidth(0)
        /\ returned_info = [rows |-> NumRows, columns |-> RowWidth(0), order |-> RowMajor]
        /\ \A i \in 1..Len(cells) :
              values[cells[i].row * RowWidth(0) + cells[i].column + 1] = CreatedCell(i)

\* ----------------------------------------------------------------------- C17
\* C17: after every successful flat parse the returned MatrixInformation
\* satisfies rows * columns = size of the flat container, and rows and
\* columns are both 0 only when the input was empty.
C17_RowsTimesColumns ==
    (RowMajorDone \/ ColumnMajorDone) =>
        /\ returned_info.rows * returned_info.columns = Len(values)
        /\ (returned_info.rows = 0 /\ returned_info.columns = 0) => data = <<>>

\* ----------------------------------------------------------------------- C18
\* The layout of the column-major result for a row count that covers the data.
ColumnMajorLayout ==
    /\ fault = "none"
    /\ Len(values) = rows * WidestRow
    /\ \A i \in 1..Len(cells) :
          /\ cells[i].column * rows + cells[i].row < Len(values)
          /\ values[cells[i].column * rows + cells[i].row + 1] = CreatedCell(i)
    /\ \A k \in 0..(Len(values) - 1) :
          CellsAt(k % rows, k \div rows) = {} => values[k + 1] = DefaultCell
    /\ returned_info.columns = IF rows = 0 THEN 0 ELSE Len(values) \div rows
    /\ returned_info.order = ColumnMajor

\* C18 as stated: parseToVectorColumnMajor called with a row count N that is
\* at least the actual number of rows stores the cell (r, c) at index
\* c * N + r, leaves the slots for rows beyond the data default-initialized,
\* produces a container of size N * (number of columns in the data), and
\* reports rows = N and columns = size / N.
C18_ColumnMajorPadding ==
    (ColumnMajorDone /\ rows >= NumRows) =>
        /\ ColumnMajorLayout
        /\ returned_info.rows = rows

\* C18 as amended: the same for every non-empty input; for the empty input
\* the container is empty and the returned information has rows = 0 and
\* columns = 0, whatever N is.
C18_ColumnMajorPaddingNonEmpty ==
    (ColumnMajorDone /\ rows >= NumRows) =>
        /\ ColumnMajorLayout
        /\ returned_info.rows = IF data = <<>> THEN 0 ELSE rows
        /\ data = <<>> => values = <<>> /\ returned_info.columns = 0

C18_Witness ==
    /\ ColumnMajorDone
    /\ rows = 3
    /\ data = <<Letter, Comma, Space, LF, Letter>>
    /\ Len(values) = 6
    /\ values[2] = [type |-> "String", view |-> <<Letter>>, has_escaped_quotes |-> FALSE]
    /\ values[3] = DefaultCell
    /\ values[4] = [type |-> "String", view |-> <<Space>>, has_escaped_quotes |-> FALSE]
    /\ returned_info = [rows |-> 3, columns |-> 2, order |-> ColumnMajor]

\* ----------------------------------------------------------------------- C19
\* The layout of the row-major result for a column count wider than the data.
RowMajorLayout ==
    /\ fault = "none"
    /\ Len(values) = NumRows * columns.value
    /\ \A i \in 1..Len(cells) :
          /\ cells[i].row * columns.value + cells[i].column < Len(values)
          /\ values[cells[i].row * columns.value + cells[i].column + 1] = CreatedCell(i)
    /\ \A k \in 0..(Len(values) - 1) :
          CellsAt(k \div columns.value, k % columns.value) = {} => values[k + 1] = DefaultCell
    /\ returned_info.rows = NumRows
    /\ returned_info.order = RowMajor

\* C19 as stated: parseToVectorRowMajor called with an explicit column count
\* C larger than the actual row width stores the cell (r, c) at index
\* r * C + c, leaves the unused trailing slots of every row
\* default-initialized, produces a container of size (number of rows) * C,
\* and reports rows = number of rows and columns = C.
C19_RowMajorPadding ==
    (RowMajorDone /\ columns.has_value /\ columns.value > WidestRow) =>
        /\ RowMajorLayout
        /\ returned_info.columns = columns.value

\* C19 as amended: the same for every non-empty input; for the empty input
\* the container is empty and the returned information has rows = 0 and
\* columns = 0, whatever C is.
C19_RowMajorPaddingNonEmpty ==
    (RowMajorDone /\ columns.has_value /\ columns.value > WidestRow) =>
        /\ RowMajorLayout
        /\ returned_info.columns = IF data = <<>> THEN 0 ELSE columns.value
        /\ data = <<>> => values = <<>>

C19_Witness ==
    /\ RowMajorDone
    /\ columns = Some(3)
    /\ data = <<Letter, Comma, Space, LF, Letter>>
    /\ Len(values) = 6
    /\ values[2] = [type |-> "String", view |-> <<Space>>, has_escaped_quotes |-> FALSE]
    /\ values[3] = DefaultCell
    /\ values[4] = [type |-> "String", view |-> <<Letter>>, has_escaped_quotes |-> FALSE]
    /\ returned_info = [rows |-> 2, columns |-> 3, order |-> RowMajor]

\* ----------------------------------------------------------------------- C20
\* C20: in both flat vector modes every element write targets an index
\* smaller than the size of the container at the moment of the write,
\* whatever the explicit column count or row count is and also when the
\* columns are inferred and a later row is wider than the first.
C20_WritesInRange ==
    wrapper \in {"parseToVectorRowMajor", "parseToVectorColumnMajor"} => fault = "none"

\* C21: for the empty input parseTo2DVector, parseToVectorRowMajor and
\* parseToVectorColumnMajor never call the sink and raise nothing, they
\* leave the output container empty, and the flat wrappers return rows = 0
\* and columns = 0 with the order of the wrapper, whatever rows, columns or
\* hint was passed.
C21_EmptyInput ==
    data = <<>> =>
        /\ cells = <<>>
        /\ outcome # "error"
        /\ fault = "none"
        /\ wrapper_pc = "returned" =>
              /\ values = <<>>
              /\ wrapper = "parseToVectorRowMajor" =>
                    returned_info = [rows |-> 0, columns |-> 0, order |-> RowMajor]
              /\ wrapper = "parseToVectorColumnMajor" =>
                    returned_info = [rows |-> 0, columns |-> 0, order |-> ColumnMajor]

C21_Witness ==
    /\ data = <<>>
    /\ wrapper = "parseToVectorColumnMajor"
    /\ rows = 2
    /\ columns_hint = Some(3)
    /\ wrapper_pc = "returned"
    /\ values = <<>>
    /\ returned_info.order = ColumnMajor

\* C22: when parseToVectorRowMajor or parseToVectorColumnMajor is called
\* twice with the same data and dimension and two different hints, both calls
\* end the same way, leave the same contents in the output container and
\* return the same MatrixInformation.
C22_HintsDoNotInfluence ==
    (first_run # NotRun /\ CallEnded) =>
        /\ values = first_run.values
        /\ returned_info = first_run.returned_info
        /\ outcome = first_run.outcome
        /\ (fault = "crashed") = (first_run.fault = "crashed")

\* C23: the static matrixIndex(row, column, rows, columns, order) is
\* row * columns + column in row-major order and column * rows + row in
\* column-major order, and the member matrixIndex(row, column) of a
\* MatrixInformation returns what the static function returns for the rows,
\* columns and order stored in the object.
C23_MatrixIndex ==
    matrix_index.has_value =>
        /\ static_index.has_value
        /\ info.order = RowMajor =>
              static_index.value = matrix_row * info.columns + matrix_column
        /\ info.order = ColumnMajor =>
              static_index.value = matrix_column * info.rows + matrix_row
        /\ matrix_index.value = static_index.value

C23_Witness ==
    /\ info = [rows |-> 3, columns |-> 2, order |-> ColumnMajor]
    /\ matrix_row = 3
    /\ matrix_column = 1
    /\ matrix_index = Some(6)
    /\ static_index = Some(6)

\* The cells of the grid g in row-major order, each with its position.
RECURSIVE GridCells(_, _)
GridCells(g, r) ==
    IF r > Len(g) THEN <<>>
    ELSE [c \in 1..Len(g[r]) |-> [row |-> r - 1, column |-> c - 1, text |-> g[r][c]]]
         \o GridCells(g, r + 1)

\* The position and text of every call of the sink, in order.
EmittedCells == [i \in 1..Len(cells) |->
                    [row |-> cells[i].row, column |-> cells[i].column, text |-> cells[i].text]]

\* C24 (as stated): parsing the join of a grid of texts without
\* double-quote, comma, CR or LF returns without error and emits exactly
\* the cells of the grid: the same rows, the same number of cells in each
\* row, and every text equal to the original text.
C24_GridRoundTrip ==
    (grid # <<>> /\ outcome # "running") =>
        /\ outcome = "returned"
        /\ EmittedCells = GridCells(grid, 1)

\* The last row of the grid is one cell with the empty text.
LastRowIsEmptyCell == grid # <<>> /\ Last(grid) = <<<<>>>>

\* C24 (amended): parsing the join returns without error; when the last row
\* of the grid is not a single empty cell, exactly the cells of the grid are
\* emitted, with their rows, columns and texts; when it is, that last row is
\* not emitted and exactly the cells of the rows before it are.
C24_GridRoundTripButEmptyLastRow ==
    (grid # <<>> /\ outcome # "running") =>
        /\ outcome = "returned"
        /\ EmittedCells =
              IF LastRowIsEmptyCell
              THEN GridCells(SubSeq(grid, 1, Len(grid) - 1), 1)
              ELSE GridCells(grid, 1)

C24_Witness ==
    /\ grid = <<<<<<Letter>>, <<>>>>, <<<<Space, Letter>>>>, <<<<>>>>>>
    /\ line_break = <<CR, LF>>
    /\ outcome = "returned"
    /\ Len(cells) = 3

\* What the accessors of a cell value v give when v holds nothing.
NoAccessorHasValue(v) ==
    /\ ~getDouble(v).has_value
    /\ ~getOriginalStringView(v).has_value
    /\ ~getCleanString(v).has_value
    /\ ~getString(v).has_value

\* C25: a CellReference and a CellValue built from any text and hint hold
\* exactly one of Empty, Double and String; getType names it without
\* raising, isEmpty is true only for Empty, the accessors of the held kind
\* return the stored number, the original text or the text with collapsed
\* quotes, and the accessors of the other kinds return nothing.
C25_TypedAccessors ==
    /\ \A v \in {cell_value, owned_value} \ {NotConstructed} :
          /\ getType(v) \in {"Empty", "Double", "String"}
          /\ isEmpty(v) <=> getType(v) = "Empty"
          /\ getType(v) = "Empty" <=> cell_hint = HintEmpty
          /\ getType(v) = "Empty" => NoAccessorHasValue(v)
          /\ getType(v) = "Double" <=> getDouble(v).has_value
          /\ getType(v) = "Double" => getDouble(v) = Some(readNumberValue(cell_text))
    /\ cell_value # NotConstructed =>
          /\ getType(cell_value) = "Double" =>
                /\ ~getOriginalStringView(cell_value).has_value
                /\ ~getCleanString(cell_value).has_value
          /\ getType(cell_value) = "String" =>
                /\ getOriginalStringView(cell_value).has_value
                /\ getOriginalStringView(cell_value).value = cell_text
                /\ getCleanString(cell_value) =
                      Some(IF cell_hint = HintStringWithEscapedQuotes
                           THEN cleanString(cell_text) ELSE cell_text)
    /\ owned_value # NotConstructed =>
          /\ getType(owned_value) = "Double" => ~getString(owned_value).has_value
          /\ getType(owned_value) = "String" =>
                getString(owned_value) =
                      Some(IF cell_hint = HintStringWithEscapedQuotes
                           THEN cleanString(cell_text) ELSE cell_text)

C25_Witness ==
    /\ cell_text = <<Letter, Quote, Quote, Letter>>
    /\ cell_hint = HintStringWithEscapedQuotes
    /\ getCleanString(cell_value) = Some(<<Letter, Quote, Letter>>)
    /\ getString(owned_value) = Some(<<Letter, Quote, Letter>>)
    /\ ~getDouble(cell_value).has_value

\* The text a CellStringBuffer is to store.
TextToStore == IF has_escaped_quotes THEN cleanString(cell_text) ELSE cell_text

RECURSIVE QuoteRun(_, _)
QuoteRun(s, p) == IF p < Len(s) /\ s[p + 1] = Quote THEN 1 + QuoteRun(s, p + 1) ELSE 0

\* s from 0-based position p on, with every maximal run of n adjacent
\* double-quotes replaced by a run of ceil(n / 2) and the rest unchanged.
RECURSIVE HalvedRuns(_, _)
HalvedRuns(s, p) ==
    IF p >= Len(s) THEN <<>>
    ELSE IF s[p + 1] = Quote
         THEN LET n == QuoteRun(s, p)
              IN [i \in 1..((n + 1) \div 2) |-> Quote] \o HalvedRuns(s, p + n)
         ELSE <<s[p + 1]>> \o HalvedRuns(s, p + 1)

HasAdjacentQuotes(s) == \E i \in 1..(Len(s) - 1) : s[i] = Quote /\ s[i + 1] = Quote

\* C26: cleanString turns every maximal run of n adjacent double-quotes
\* into ceil(n / 2) double-quotes and copies every other character
\* unchanged, and it returns its input exactly when the input has no two
\* adjacent double-quotes.
C26_CleanString ==
    clean_string.has_value =>
        /\ clean_string.value = HalvedRuns(cell_text, 0)
        /\ clean_string.value = cell_text <=> ~HasAdjacentQuotes(cell_text)

C26_Witness ==
    /\ cell_text = <<Quote, Quote, Quote, Letter, Quote, Quote>>
    /\ clean_string = Some(<<Quote, Quote, Letter, Quote>>)

\* t without its trailing spaces and tabs and its leading whitespace.
NumberBody(t) ==
    LET keep == {i \in 1..Len(t) : t[i] \notin {Space, Tab}}
        last == IF keep = {} THEN Len(t) ELSE CHOOSE i \in keep : \A j \in keep : j <= i
        first == IF \A i \in 1..last : IsSpace(t[i]) THEN last + 1
                 ELSE CHOOSE i \in 1..last : ~IsSpace(t[i]) /\ \A j \in 1..(i - 1) : IsSpace(t[j])
    IN SubSeq(t, first, last)

\* x without a leading sign.
Unsigned(x) == IF x # <<>> /\ x[1] \in {Plus, Minus} THEN Tail(x) ELSE x

AllDigits(x) == x # <<>> /\ \A i \in 1..Len(x) : x[i] = Digit

\* b is written as an integer: an optional sign and digits.
IsIntegerText(b) == AllDigits(Unsigned(b))

\* m is digits with at most one decimal point and at least one digit.
IsMantissa(m) ==
    /\ \A i \in 1..Len(m) : m[i] \in {Digit, Point}
    /\ Cardinality({i \in 1..Len(m) : m[i] = Point}) <= 1
    /\ \E i \in 1..Len(m) : m[i] = Digit

\* b is written as a floating-point number: an optional sign and then
\* inf, nan, or a mantissa with an optional exponent.
IsFloatingText(b) ==
    LET u == Unsigned(b)
    IN \/ u \in {<<LetterI, LetterN, LetterF>>, <<LetterN, Letter, LetterN>>}
       \/ \E k \in 1..Len(u) :
             /\ IsMantissa(SubSeq(u, 1, k))
             /\ \/ k = Len(u)
                \/ /\ u[k + 1] = ExpLower
                   /\ AllDigits(Unsigned(SubSeq(u, k + 2, Len(u))))

\* C29: readNumber never raises, and it returns a value only if the whole
\* token, without its trailing spaces and tabs and its leading whitespace,
\* is written as a number of the target type; a token with a leftover
\* character, an empty or whitespace-only token and, for an integer target,
\* a token with a fraction, an exponent, inf or nan give no value.
C29_ReadNumber ==
    number_value # NotCalled =>
        /\ number_value.raised = "none"
        /\ number_value.has_value =>
              /\ number_type \in FloatingTypes => IsFloatingText(NumberBody(cell_text))
              /\ number_type \in IntegerTypes => IsIntegerText(NumberBody(cell_text))
        /\ NumberBody(cell_text) = <<>> => ~number_value.has_value

C29_Witness ==
    /\ cell_text = <<Digit, ExpLower, Plus, Digit>>
    /\ number_type = "int"
    /\ number_value # NotCalled
    /\ ~number_value.has_value

\* cell is written completely as a number of the type CellT.
ParsesCompletely(cell, CellT) ==
    IF CellT \in FloatingTypes THEN IsFloatingText(NumberBody(cell))
    ELSE IsIntegerText(NumberBody(cell))

\* C28: creating an element of a primitive numeric type from a cell never
\* raises; a cell whose text is not written completely as a number of that
\* type, an empty cell and a quoted cell included, is stored as NaN for a
\* floating-point type and as 0 for an integer type.
C28_NumericElements ==
    element # NotCalled =>
        /\ element.raised = "none"
        /\ element.has_value
        /\ ~ParsesCompletely(cell_text, number_type) =>
              element.value = (IF number_type \in FloatingTypes THEN "NaN" ELSE 0)

C28_Witness ==
    /\ cell_text = <<Digit, Point>>
    /\ cell_hint = HintStringWithoutEscapedQuotes
    /\ number_type = "int"
    /\ element # NotCalled
    /\ element.value = 0

\* The number a string of decimal digits denotes, -1 if it is not one.
RECURSIVE DecimalValue(_)
DecimalValue(t) ==
    LET digit(ch) == IF \E d \in 0..9 : <<"0", "1", "2", "3", "4", "5", "6", "7", "8", "9">>[d + 1] = ch
                     THEN CHOOSE d \in 0..9 :
                              <<"0", "1", "2", "3", "4", "5", "6", "7", "8", "9">>[d + 1] = ch
                     ELSE -1
    IN IF t = <<>> \/ digit(t[Len(t)]) = -1 THEN -1
       ELSE IF Len(t) = 1 THEN digit(t[1])
       ELSE IF DecimalValue(SubSeq(t, 1, Len(t) - 1)) <= 0 THEN -1
       ELSE 10 * DecimalValue(SubSeq(t, 1, Len(t) - 1)) + digit(t[Len(t)])

\* w reads "CSV parse error at row R, column C" for the decimal numbers R and C.
ReadsAs(w, R, C) ==
    LET at_row == <<"C", "S", "V", " ", "p", "a", "r", "s", "e", " ", "e", "r", "r", "o", "r",
                    " ", "a", "t", " ", "r", "o", "w", " ">>
        at_column == <<",", " ", "c", "o", "l", "u", "m", "n", " ">>
    IN \E i \in 1..Len(w), j \in 1..Len(w) :
          /\ i < j
          /\ SubSeq(w, 1, i) = at_row
          /\ j + Len(at_column) <= Len(w)
          /\ SubSeq(w, j + 1, j + Len(at_column)) = at_column
          /\ DecimalValue(SubSeq(w, i + 1, j)) = R
          /\ DecimalValue(SubSeq(w, j + Len(at_column) + 1, Len(w))) = C

\* C30: the ParseError thrown at the 0-based position (row, column) returns
\* that row from row() and that column from column(), and its message reads
\* "CSV parse error at row R, column C" with R = row + 1 and C = column + 1.
C30_ParseError ==
    exception # NotConstructed =>
        /\ ParseError_row(exception) = current_row
        /\ ParseError_column(exception) = current_column
        /\ ReadsAs(ParseError_what(exception), current_row + 1, current_column + 1)
        /\ error = [row |-> ParseError_row(exception), column |-> ParseError_column(exception)]

C30_Witness ==
    /\ outcome = "error"
    /\ exception # NotConstructed
    /\ ParseError_row(exception) = 1
    /\ ParseError_column(exception) = 2
    /\ ParseError_what(exception) =
          <<"C", "S", "V", " ", "p", "a", "r", "s", "e", " ", "e", "r", "r", "o", "r", " ",
            "a", "t", " ", "r", "o", "w", " ", "2", ",", " ", "c", "o", "l", "u", "m", "n",
            " ", "3">>

\* C37: parse raises no parse error on an input without a double-quote: it
\* never enters a quoted value, it keeps stepping until the end of the input,
\* it returns only there and it never ends with an error.
C37_NoQuoteNoError ==
    Quote \notin Range(data) =>
        /\ outcome # "error"
        /\ machine_state \notin {"InsideQuotedValue", "AfterQuotedValue"}
        /\ outcome = "running" => pos <= Len(data)
        /\ outcome = "returned" => pos = Len(data)

C37_Witness ==
    /\ Quote \notin Range(data)
    /\ Len(data) = MaxLen
    /\ outcome = "returned"
    /\ Len(cells) >= 2

\* A parse that returns has called the sink at least once unless the input
\* is empty, and has not called it for the empty input.
SinkCalledUnlessEmpty ==
    outcome = "returned" => (cells = <<>> <=> data = <<>>)

\* C38: a parse that returns has called the sink at least once unless the
\* input is empty, and has not called it for the empty input; so a flat
\* wrapper that returns leaves the output container empty only for the empty
\* input.
C38_EmptyResultIdentifiesEmptyInput ==
    /\ SinkCalledUnlessEmpty
    /\ (wrapper_pc = "returned" /\ values = <<>>) => data = <<>>

\* Every maximal run of double-quotes of t has even length.
EvenQuoteRuns(t) ==
    \A p \in 0..(Len(t) - 1) :
        (t[p + 1] = Quote /\ (p = 0 \/ t[p] # Quote)) => QuoteRun(t, p) % 2 = 0

\* C35: in every emitted token text the double-quotes occur only in runs of
\* even length, and the hint is StringWithEscapedQuotes exactly when the text
\* contains a double-quote; the escaped-quote flag is set only while the
\* current token contains a double-quote, and it is clear at every cell start.
C35_EscapedQuotes ==
    /\ \A i \in 1..Len(cells) :
          /\ EvenQuoteRuns(cells[i].text)
          /\ cells[i].hint = HintStringWithEscapedQuotes <=> Quote \in Range(cells[i].text)
    /\ escaped_quotes_encountered => Quote \in Range(ViewText(data, current_value))
    /\ machine_state = "AtCellStart" => ~escaped_quotes_encountered

C35_Witness ==
    /\ outcome = "returned"
    /\ Len(cells) = 2
    /\ cells[1].text = <<Letter, Quote, Quote>>
    /\ cells[1].hint = HintStringWithEscapedQuotes
    /\ cells[2].text = <<Letter>>
    /\ cells[2].hint = HintUnquotedData

\* C36: every non-empty token text passed to the sink is the characters of
\* the input from its start on, it ends inside the input, and of two
\* non-empty tokens the one emitted first ends before the other starts.
C36_TokenSpans ==
    /\ Len(views) = Len(cells)
    /\ \A i \in 1..Len(views) :
          views[i].size > 0 =>
             /\ views[i].start >= 0
             /\ views[i].start + views[i].size <= Len(data)
             /\ cells[i].text = [k \in 1..views[i].size |-> data[views[i].start + k]]
    /\ \A i \in 1..Len(views) : \A j \in (i + 1)..Len(views) :
          (views[i].size > 0 /\ views[j].size > 0) =>
             views[i].start + views[i].size <= views[j].start

C36_Witness ==
    /\ outcome = "returned"
    /\ Len(views) = 3
    /\ views[1] = [start |-> 0, size |-> 1]
    /\ views[2].size = 0
    /\ views[3] = [start |-> 4, size |-> 1]

\* C33: parse terminates: every step that does not end the call moves the
\* position forward, so that no character is the current character of two
\* steps; the step that processes the end of the input ends the call; and
\* every call ends, returning or raising a parse error.
C33_Termination ==
    /\ [][outcome = "running" => (pos' > pos \/ outcome' # "running")]_vars
    /\ [][(outcome = "running" /\ pos = Len(data)) => outcome' \in {"returned", "error"}]_vars
    /\ [](pos <= Len(data))
    /\ <>(outcome \in {"returned", "error"})

C33_Witness ==
    /\ outcome = "returned"
    /\ pos = Len(data)
    /\ Len(data) = MaxLen
    /\ machine_state = "AfterQuotedValue"

\* The edges of the machine state listed with MachineState.
StateEdges ==
    {<<"AtCellStart", "InLeadingWhiteSpace">>, <<"AtCellStart", "InsideUnquotedValue">>,
     <<"AtCellStart", "InsideQuotedValue">>,
     <<"InLeadingWhiteSpace", "InsideUnquotedValue">>, <<"InLeadingWhiteSpace", "InsideQuotedValue">>,
     <<"InLeadingWhiteSpace", "AtCellStart">>,
     <<"InsideUnquotedValue", "AtCellStart">>,
     <<"InsideQuotedValue", "AfterQuotedValue">>,
     <<"AfterQuotedValue", "AtCellStart">>}

\* C34: the machine state starts in AtCellStart and changes only along the
\* listed edges; a quoted value is left only at a quote that is not followed
\* by another quote.
C34_StateEdges ==
    /\ machine_state = "AtCellStart"
    /\ [][machine_state' # machine_state => <<machine_state, machine_state'>> \in StateEdges]_vars
    /\ [][(machine_state = "InsideQuotedValue" /\ machine_state' # machine_state) =>
             (current_char = Quote /\ peek(data, pos, 1) # Quote)]_vars

C34_Witness ==
    /\ outcome = "returned"
    /\ machine_state = "AfterQuotedValue"
    /\ Len(cells) = 2
    /\ cells[1].hint = HintUnquotedData
    /\ Len(data) = MaxLen
    /\ data[3] = Space

\* C40: for rows R > 0, columns C > 0 and either order, matrixIndex maps the
\* cells with row < R and column < C one-to-one onto the slots 0 .. R*C - 1:
\* the computed slot of an in-range cell is in range, no two in-range cells
\* share a slot, and every slot is the slot of an in-range cell.
C40_Bijection ==
    (matrix_index.has_value /\ info.rows > 0 /\ info.columns > 0) =>
        /\ (matrix_row < info.rows /\ matrix_column < info.columns) =>
              /\ static_index.value \in 0..(info.rows * info.columns - 1)
              /\ matrix_index.value \in 0..(info.rows * info.columns - 1)
        /\ \A r1 \in 0..(info.rows - 1), r2 \in 0..(info.rows - 1) :
              \A c1 \in 0..(info.columns - 1), c2 \in 0..(info.columns - 1) :
                 matrixIndex(r1, c1, info.rows, info.columns, info.order)
                    = matrixIndex(r2, c2, info.rows, info.columns, info.order)
                 => (r1 = r2 /\ c1 = c2)
        /\ \A k \in 0..(info.rows * info.columns - 1) :
              \E r \in 0..(info.rows - 1), c \in 0..(info.columns - 1) :
                 matrixIndex(r, c, info.rows, info.columns, info.order) = k

C40_Witness ==
    /\ info = [rows |-> 3, columns |-> 2, order |-> ColumnMajor]
    /\ matrix_row = 2
    /\ matrix_column = 1
    /\ static_index = Some(5)
    /\ matrix_index = Some(5)

\* The caller's container as it was when the wrapper was called.
ContainerBeforeCall ==
    IF wrapper = "parseTo2DVector" THEN <<PreviousValues>> ELSE PreviousValues

\* C32: when parse raises a parse error, the caller's container is what it
\* was before the call of parseTo2DVector, parseToVectorRowMajor or
\* parseToVectorColumnMajor, whatever was assembled before the error; the
\* container differs from what it was only once parse has returned and the
\* wrapper has swapped.
C32_ErrorKeepsContainer ==
    /\ outcome = "error" => (values = ContainerBeforeCall /\ wrapper_pc = "in_parse")
    /\ values # ContainerBeforeCall => (outcome = "returned" /\ wrapper_pc = "returned")

C32_Witness ==
    /\ wrapper = "parseToVectorColumnMajor"
    /\ outcome = "error"
    /\ Len(cells) >= 2
    /\ Len(parsed_values) >= 2
    /\ fault = "none"
    /\ values = PreviousValues

\* The call with the locals c has so far made the sink calls the call run
\* alone made, in their order, and has ended as that call ended.
AsWhenRunAlone(c) ==
    /\ Len(c.cells) <= Len(first_run.cells)
    /\ c.cells = SubSeq(first_run.cells, 1, Len(c.cells))
    /\ c.outcome # "running" =>
          /\ c.cells = first_run.cells
          /\ c.outcome = first_run.outcome
          /\ c.error = first_run.error

\* C31: of two calls of parse running concurrently on the same text, under
\* every interleaving of their steps, each makes the sink calls and raises
\* the error of the call run alone.
C31_ConcurrentCalls ==
    other_call # NotStarted => (AsWhenRunAlone(SavedCall) /\ AsWhenRunAlone(other_call))

C31_Witness ==
    /\ other_call # NotStarted
    /\ outcome = "error"
    /\ other_call.outcome = "running"
    /\ other_call.pos > 0
    /\ other_call.pos < pos
    /\ other_call.cells # <<>>
    /\ Len(other_call.cells) < Len(cells)

\* The three assemblies of the text have been made.
AllAssembled ==
    /\ wrapper = "parseToVectorColumnMajor"
    /\ wrapper_pc = "returned"
    /\ first_run # NotRun

\* C39: for a rectangular text of R rows and C columns, the element
\* r * C + c of the row-major container made with columns = C, the element
\* c * R + r of the column-major container made with rows = R and the
\* element [c][r] of the nested container are all the element created from
\* the text and hint of the cell of row r and column c.
C39_SameGrid ==
    AllAssembled =>
        /\ RectangularGrid(cells)
        /\ rows = GridRows(cells)
        /\ Len(first_run.row_major) = rows * GridColumns(cells)
        /\ Len(values) = rows * GridColumns(cells)
        /\ Len(first_run.nested) = GridColumns(cells)
        /\ \A c \in 0..(GridColumns(cells) - 1) :
              /\ Len(first_run.nested[c + 1]) = rows
              /\ \A r \in 0..(rows - 1) :
                    /\ first_run.row_major[r * GridColumns(cells) + c + 1]
                          = create(cells[r * GridColumns(cells) + c + 1].text,
                                   cells[r * GridColumns(cells) + c + 1].hint)
                    /\ values[c * rows + r + 1] = first_run.row_major[r * GridColumns(cells) + c + 1]
                    /\ first_run.nested[c + 1][r + 1] = values[c * rows + r + 1]

C39_Witness ==
    /\ AllAssembled
    /\ rows = 2
    /\ GridColumns(cells) = 2
    /\ values[2] # values[3]
    /\ first_run.row_major[2] = values[3]
    /\ first_run.nested[2][1] = values[3]

TypeOK ==
    /\ other_call # NotStarted => other_call.pos \in 0..Len(data)
    /\ pos \in Nat
    /\ machine_state \in MachineState
    /\ outcome \in {"running", "returned", "error"}
    /\ current_value.start + current_value.size <= Len(data)
    /\ pos <= Len(data)

====
